---- MODULE Spec2Model ----
(***************************************************************************)
(* Model of the RAG-Chat retrieval core:                                   *)
(*   backend/services/hybrid_search.py   HybridSearch                      *)
(*   backend/services/web_search.py      WebSearchService                  *)
(*   backend/agents/*.py                 the five pipeline stages          *)
(*   backend/agents/workflow.py          RAGWorkflow                       *)
(*                                                                         *)
(* Numbers.  Weights are kept in thousandths (0.7 is 700).  A fused score  *)
(* is an exact fraction <<n, d>> standing for n / (1000 * d), so that      *)
(* dense_weight / (k + rank) is <<dense_weight, k + rank>>.  A rank of     *)
(* None is NoRank.  A chunk is its chunk_id and its content; its metadata   *)
(* travels with the content and no operation modelled here reads it.  The  *)
(* raw dense score of a hit (dense_score) is likewise carried and unread.  *)
(***************************************************************************)
EXTENDS Integers, Sequences, FiniteSets, TLC

\* ------------------------------------------------------------------ bounds

\* Longest ranked list handed to _reciprocal_rank_fusion.
MaxLen == 3
\* Largest top_k of a direct hybrid_search call.
MaxTopK == 2
\* Largest chunk list handed to index_for_bm25.
MaxCorpus == 2
\* Dimension of the embedding vectors of the model.
embedding_dimension == 2
\* Most calls made in a row on one agent or service.
MaxCalls == 2
\* Most uploads chunked before a merge.
MaxDocs == 2

\* ------------------------------------------------------- program constants

\* _reciprocal_rank_fusion(..., k: int = 60)
RRF_K == 60
\* settings.retrieval_top_k
retrieval_top_k == 10
\* settings.reranking_top_k
reranking_top_k == 5
\* RetrievalAgent.retrieve: dense_weight=0.7, sparse_weight=0.3
RetrievalDenseWeight == 700
RetrievalSparseWeight == 300

ChunkIds == {"A", "B", "C", "D"}
NoRank == 0
\* 'page_number': None
NoPage == 0
\* merge_small_chunks: min_size: int = 100
merge_min_size == 100

\* ------------------------------------------------------------- arithmetic

Abs(x) == IF x < 0 THEN -x ELSE x
Min(a, b) == IF a < b THEN a ELSE b

FracAdd(a, b) == <<a[1] * b[2] + b[1] * a[2], a[2] * b[2]>>

\* Sign of n1/d1 - n2/d2 for non-negative fractions, by their continued
\* fractions: no product is formed, so no intermediate value leaves the integers
\* the fractions themselves fit in.
RECURSIVE Cmp(_, _, _, _)
Cmp(n1, d1, n2, d2) ==
    LET q1 == n1 \div d1
        q2 == n2 \div d2
        r1 == n1 % d1
        r2 == n2 % d2
    IN IF q1 # q2 THEN (IF q1 < q2 THEN -1 ELSE 1)
       ELSE IF r1 = 0 /\ r2 = 0 THEN 0
       ELSE IF r1 = 0 THEN -1
       ELSE IF r2 = 0 THEN 1
       ELSE Cmp(d2, r2, d1, r1)

FracLess(a, b) == Cmp(a[1], a[2], b[1], b[2]) < 0
FracEq(a, b) == Cmp(a[1], a[2], b[1], b[2]) = 0
FracLeq(a, b) == Cmp(a[1], a[2], b[1], b[2]) <= 0

\* The duplicate-free sequences of at most n elements of S.
RECURSIVE SeqsUpTo(_, _)
SeqsUpTo(S, n) ==
    IF n = 0 THEN {<<>>}
    ELSE LET shorter == SeqsUpTo(S, n - 1)
         IN shorter \cup
            {Append(s, x) : <<s, x>> \in
                {p \in shorter \X S :
                    /\ Len(p[1]) = n - 1
                    /\ \A i \in 1..Len(p[1]) : p[1][i] # p[2]}}

Range(s) == {s[i] : i \in 1..Len(s)}
Take(s, n) == SubSeq(s, 1, Min(n, Len(s)))

\* ------------------------------------------- HybridSearch: rank fusion

\* Position of chunk_id in the insertion-ordered dict fused_scores, 0 if absent.
KeyIndex(fs, cid) ==
    IF \E i \in 1..Len(fs) : fs[i].chunk_id = cid
    THEN CHOOSE i \in 1..Len(fs) : fs[i].chunk_id = cid
    ELSE 0

\* A list of pairs in place of the dict: every assignment adds an entry.
DictAppend(fs, rec) == Append(fs, rec)

\* fused_scores[chunk_id] = {...}: a new key is appended, an existing key keeps
\* its position and takes the new value.
DictSet(fs, rec) ==
    LET i == KeyIndex(fs, rec.chunk_id)
    IN IF i = 0 THEN Append(fs, rec) ELSE [fs EXCEPT ![i] = rec]

\* for rank, result in enumerate(dense_results, 1)
RECURSIVE AddDense(_, _, _, _)
AddDense(fs, dense_results, rank, dense_weight) ==
    IF rank > Len(dense_results) THEN fs
    ELSE AddDense(
            DictSet(fs, [chunk_id |-> dense_results[rank].chunk_id,
                         score |-> <<dense_weight, RRF_K + rank>>,
                         content |-> dense_results[rank].content,
                         metadata |-> dense_results[rank].metadata,
                         dense_rank |-> rank,
                         sparse_rank |-> NoRank]),
            dense_results, rank + 1, dense_weight)

\* AddSparse with the both-lists branch assigning the sparse term instead of
\* adding it.
RECURSIVE AddSparseOverwrites(_, _, _, _)
AddSparseOverwrites(fs, sparse_results, rank, sparse_weight) ==
    IF rank > Len(sparse_results) THEN fs
    ELSE LET cid == sparse_results[rank].chunk_id
             i == KeyIndex(fs, cid)
             next ==
                IF i # 0
                THEN [fs EXCEPT
                        ![i].score = <<sparse_weight, RRF_K + rank>>,
                        ![i].sparse_rank = rank]
                ELSE Append(fs, [chunk_id |-> cid,
                                 score |-> <<sparse_weight, RRF_K + rank>>,
                                 content |-> sparse_results[rank].content,
                                 metadata |-> sparse_results[rank].metadata,
                                 dense_rank |-> NoRank,
                                 sparse_rank |-> rank])
         IN AddSparseOverwrites(next, sparse_results, rank + 1, sparse_weight)

\* for rank, result in enumerate(sparse_results, 1)
RECURSIVE AddSparse(_, _, _, _)
AddSparse(fs, sparse_results, rank, sparse_weight) ==
    IF rank > Len(sparse_results) THEN fs
    ELSE LET cid == sparse_results[rank].chunk_id
             i == KeyIndex(fs, cid)
             next ==
                IF i # 0
                THEN [fs EXCEPT
                        ![i].score = FracAdd(@, <<sparse_weight, RRF_K + rank>>),
                        ![i].sparse_rank = rank]
                ELSE Append(fs, [chunk_id |-> cid,
                                 score |-> <<sparse_weight, RRF_K + rank>>,
                                 content |-> sparse_results[rank].content,
                                 metadata |-> sparse_results[rank].metadata,
                                 dense_rank |-> NoRank,
                                 sparse_rank |-> rank])
         IN AddSparse(next, sparse_results, rank + 1, sparse_weight)

\* InsertByScore placing x before the elements of equal score.
RECURSIVE InsertBeforeTies(_, _)
InsertBeforeTies(s, x) ==
    IF s = <<>> THEN <<x>>
    ELSE IF FracLeq(Head(s).score, x.score)
         THEN <<x>> \o s
         ELSE <<Head(s)>> \o InsertBeforeTies(Tail(s), x)

\* Where sorted(..., key=score, reverse=True) places x among the already
\* sorted s: after every element whose score is not smaller (the sort is stable).
RECURSIVE InsertByScore(_, _)
InsertByScore(s, x) ==
    IF s = <<>> THEN <<x>>
    ELSE IF FracLess(Head(s).score, x.score)
         THEN <<x>> \o s
         ELSE <<Head(s)>> \o InsertByScore(Tail(s), x)

\* SortedByScore without reverse=True.
RECURSIVE InsertAscending(_, _)
InsertAscending(s, x) ==
    IF s = <<>> THEN <<x>>
    ELSE IF FracLess(x.score, Head(s).score)
         THEN <<x>> \o s
         ELSE <<Head(s)>> \o InsertAscending(Tail(s), x)

RECURSIVE SortedAscending(_)
SortedAscending(s) ==
    IF s = <<>> THEN <<>>
    ELSE InsertAscending(SortedAscending(SubSeq(s, 1, Len(s) - 1)), s[Len(s)])

RECURSIVE SortedByScore(_)
SortedByScore(s) ==
    IF s = <<>> THEN <<>>
    ELSE InsertByScore(SortedByScore(SubSeq(s, 1, Len(s) - 1)), s[Len(s)])

_reciprocal_rank_fusion(dense_results, sparse_results, dense_weight, sparse_weight) ==
    SortedByScore(
        AddSparse(AddDense(<<>>, dense_results, 1, dense_weight),
                  sparse_results, 1, sparse_weight))

\* ------------------------------------------------- HybridSearch: BM25 leg

\* self.bm25_index = None
NoIndex == [built |-> FALSE, docs |-> <<>>]

\* BM25 scores the library can give one indexed document for a query.
ScoreLevels == {0, 1, 2}

Reverse(s) == [i \in 1..Len(s) |-> s[Len(s) + 1 - i]]

\* np.argsort(scores): an ascending order of the indices; the order of equal
\* scores is not fixed by the sort.
ArgSorts(scores) ==
    {p \in SeqsUpTo(1..Len(scores), Len(scores)) :
        /\ Len(p) = Len(scores)
        /\ \A i \in 1..Len(p) : \A j \in 1..Len(p) :
              i < j => scores[p[i]] <= scores[p[j]]}

\* np.argsort(scores)[:top_k], the lowest scores first.
TopIndicesAscending(order, top_k) == Take(order, top_k)

\* top_indices = np.argsort(scores)[::-1][:top_k]
TopIndices(order, top_k) == Take(Reverse(order), top_k)

\* for idx in top_indices: if scores[idx] > 0: results.append({...})
RECURSIVE PositiveHits(_, _, _, _)
PositiveHits(top_indices, scores, corpus, metadata) ==
    IF top_indices = <<>> THEN <<>>
    ELSE LET idx == Head(top_indices)
             rest == PositiveHits(Tail(top_indices), scores, corpus, metadata)
         IN IF scores[idx] > 0
            THEN <<[chunk_id |-> metadata[idx].chunk_id,
                    score |-> scores[idx],
                    content |-> corpus[idx],
                    metadata |-> metadata[idx].metadata]>> \o rest
            ELSE rest

\* scores = bm25_index.get_scores(query) and order = np.argsort(scores) are the
\* library's answers for this call.
_bm25_search(index, corpus, metadata, scores, order, top_k) ==
    IF ~index.built THEN <<>>
    ELSE PositiveHits(TopIndices(order, top_k), scores, corpus, metadata)

\* ---------------------------------------------- HybridSearch: hybrid_search

\* (dense_weight, sparse_weight) of the direct calls, in thousandths.
WeightPairs ==
    {<<700, 300>>, <<700, 200>>, <<500, 500>>, <<700, 305>>, <<700, 310>>, <<700, 320>>}

\* Weight pairs whose decimal sum is exactly 0.01 away from 1.0 and for which
\* the binary64 value of abs(dense_weight + sparse_weight - 1.0) is
\* 0.010000000000000009, above the binary64 0.01.
RoundsAboveTolerance == {<<700, 310>>, <<930, 60>>, <<500, 510>>, <<700, 290>>}

\* abs(dense_weight + sparse_weight - 1.0) > 0.01, as binary64 evaluates it.
WeightsRejected(dense_weight, sparse_weight) ==
    \/ Abs(dense_weight + sparse_weight - 1000) > 10
    \/ <<dense_weight, sparse_weight>> \in RoundsAboveTolerance

\* The chunk with a given chunk_id, as a document upload stores it.
ContentOf(cid) == <<"content", cid>>
MetadataOf(cid) == <<"metadata", cid>>
Chunk(cid) == [chunk_id |-> cid, content |-> ContentOf(cid), metadata |-> MetadataOf(cid)]
HitsOf(ids) == [i \in 1..Len(ids) |-> Chunk(ids[i])]

\* What vector_store.similarity_search(query, top_k) can do: raise, or answer
\* with at most top_k hits of distinct ids.
StoreAnswers(top_k) ==
    {[raised |-> TRUE, hits |-> <<>>]} \cup
    {[raised |-> FALSE, hits |-> HitsOf(ids)] :
        ids \in SeqsUpTo(ChunkIds, Min(top_k, MaxLen))}

IdleFrame ==
    [status |-> "idle", top_k |-> 0, dense_weight |-> 0, sparse_weight |-> 0,
     store_called |-> FALSE, dense |-> <<>>, sparse |-> <<>>, value |-> <<>>]

\* hybrid_search with the dense failure caught and the fusion run on the
\* sparse hits alone.
hybrid_search_swallowing(top_k, dense_weight, sparse_weight, store, index, corpus, metadata, scores, order) ==
    IF WeightsRejected(dense_weight, sparse_weight)
    THEN [IdleFrame EXCEPT !.status = "ValueError", !.top_k = top_k,
            !.dense_weight = dense_weight, !.sparse_weight = sparse_weight]
    ELSE LET sparse_results == _bm25_search(index, corpus, metadata, scores, order, top_k * 2)
             fused_results == _reciprocal_rank_fusion(
                 store.hits, sparse_results, dense_weight, sparse_weight)
         IN [status |-> "ok", top_k |-> top_k,
             dense_weight |-> dense_weight, sparse_weight |-> sparse_weight,
             store_called |-> TRUE, dense |-> store.hits, sparse |-> sparse_results,
             value |-> Take(fused_results, top_k)]

\* store is the answer similarity_search gives when asked for top_k * 2 hits;
\* scores and order are the BM25 library's answers.
hybrid_search(top_k, dense_weight, sparse_weight, store, index, corpus, metadata, scores, order) ==
    IF WeightsRejected(dense_weight, sparse_weight)
    THEN [IdleFrame EXCEPT !.status = "ValueError", !.top_k = top_k,
            !.dense_weight = dense_weight, !.sparse_weight = sparse_weight]
    ELSE IF store.raised
    THEN [IdleFrame EXCEPT !.status = "StoreError", !.top_k = top_k,
            !.dense_weight = dense_weight, !.sparse_weight = sparse_weight,
            !.store_called = TRUE]
    ELSE LET sparse_results == _bm25_search(index, corpus, metadata, scores, order, top_k * 2)
             fused_results == _reciprocal_rank_fusion(
                 store.hits, sparse_results, dense_weight, sparse_weight)
         IN [status |-> "ok", top_k |-> top_k,
             dense_weight |-> dense_weight, sparse_weight |-> sparse_weight,
             store_called |-> TRUE, dense |-> store.hits, sparse |-> sparse_results,
             value |-> Take(fused_results, top_k)]

\* ------------------------------------------------------ WebSearchService

WebResult(provider) == [title |-> "t1", url |-> "u1", snippet |-> "s1", source |-> provider]

\* What the provider's client call can do: raise, or answer with results.
ProviderAnswers == {[failed |-> TRUE, n |-> 0], [failed |-> FALSE, n |-> 0],
                    [failed |-> FALSE, n |-> 1]}

ResultsOf(answer, provider) == [i \in 1..answer.n |-> WebResult(provider)]

\* try: ... except Exception: print(...); return results.  In each outcome
\* failed tells whether the search failed in any way, caught or not.
_duckduckgo_search(answer) ==
    [raised |-> FALSE, error |-> "None", failed |-> answer.failed,
     results |-> IF answer.failed THEN <<>> ELSE ResultsOf(answer, "duckduckgo")]

_tavily_search(tavily_api_key, answer) ==
    IF tavily_api_key = ""
    THEN [raised |-> TRUE, error |-> "Tavily API key not configured", failed |-> TRUE,
          results |-> <<>>]
    ELSE [raised |-> FALSE, error |-> "None", failed |-> answer.failed,
          results |-> IF answer.failed THEN <<>> ELSE ResultsOf(answer, "tavily")]

search(cfg, answer) ==
    IF cfg.web_search_provider = "duckduckgo" THEN _duckduckgo_search(answer)
    ELSE IF cfg.web_search_provider = "tavily"
         THEN _tavily_search(cfg.tavily_api_key, answer)
    ELSE [raised |-> TRUE, error |-> "Unknown search provider", failed |-> TRUE,
          results |-> <<>>]

\* ------------------------------------------------------------- AgentState

Queries == {<<"what", "is", "rag">>, <<"latest", "rag", "news">>}

NoFinal == [body |-> "None", sources |-> <<>>]

\* RAGWorkflow.run: initial_state = AgentState(...)
InitialState(query) ==
    [query |-> query,
     query_type |-> "None",
     needs_web_search |-> FALSE,
     search_keywords |-> <<>>,
     retrieved_chunks |-> <<>>,
     web_results |-> <<>>,
     reranked_chunks |-> <<>>,
     generated_response |-> "None",
     citations |-> <<>>,
     final_response |-> NoFinal,
     processing_steps |-> <<>>,
     error |-> "None"]

NoRun == InitialState(<<>>)

\* A stage's outcome: the state it returns, or the exception it raises.
Returns(st) == [raised |-> FALSE, error |-> "None", state |-> st]
Raises(msg) == [raised |-> TRUE, error |-> msg, state |-> NoRun]

\* ------------------------------------------------------ QueryAnalysisAgent

question_words == {"what", "why", "how", "when", "where", "who"}
conversational_words == {"hello", "hi", "thanks", "thank you"}
current_info_indicators ==
    {"latest", "recent", "current", "today", "now", "2024", "2025", "2026", "this year"}
stop_words == {"what", "is", "the", "a", "an", "in", "on", "at", "to", "for",
               "of", "and", "or", "but", "with", "from", "by", "about"}
\* The words of Queries with len(w) <= 2.
ShortWords == {"is"}

\* The queries are word lists none of whose words contains another vocabulary
\* word, so that Python's substring tests are membership tests here.
_rule_based_analysis(query) ==
    [query_type |->
        IF Range(query) \cap conversational_words # {} THEN "conversational"
        ELSE IF query # <<>> /\ Head(query) \in question_words
             THEN IF Range(query) \cap {"why", "how"} # {}
                  THEN "analytical" ELSE "factual"
        ELSE "factual",
     needs_web_search |-> Range(query) \cap current_info_indicators # {},
     search_keywords |->
        Take(SelectSeq(query, LAMBDA w : w \notin stop_words /\ w \notin ShortWords), 5)]

\* What self.llm.invoke and json.loads can give _llm_analysis: an exception, or
\* a parsed answer.
LLMAnalyses ==
    {[failed |-> TRUE, query_type |-> "None", needs_web_search |-> FALSE,
      search_keywords |-> <<>>],
     [failed |-> FALSE, query_type |-> "analytical", needs_web_search |-> TRUE,
      search_keywords |-> <<"rag">>],
     [failed |-> FALSE, query_type |-> "factual", needs_web_search |-> FALSE,
      search_keywords |-> <<>>]}

_llm_analysis(query, answer) ==
    IF answer.failed THEN _rule_based_analysis(query)
    ELSE [query_type |-> answer.query_type,
          needs_web_search |-> answer.needs_web_search,
          search_keywords |-> answer.search_keywords]

analyze(st, cfg, answer) ==
    LET result == IF cfg.huggingface_api_key # ""
                  THEN _llm_analysis(st.query, answer)
                  ELSE _rule_based_analysis(st.query)
    IN Returns([st EXCEPT
            !.processing_steps = Append(@, "query_analysis"),
            !.query_type = result.query_type,
            !.needs_web_search = result.needs_web_search,
            !.search_keywords = result.search_keywords])

\* ---------------------------------------------------------- RetrievalAgent

\* retrieve with the web search made whatever needs_web_search says.
retrieve_always_web(st, frame, web) ==
    LET stepped == [st EXCEPT !.processing_steps = Append(@, "retrieval")]
        with(outcome, called) ==
            [raised |-> outcome.raised, error |-> outcome.error, state |-> outcome.state,
             web |-> [called |-> called, failed |-> called /\ web.failed]]
    IN IF frame.status # "ok" THEN with(Raises(frame.status), FALSE)
       ELSE IF web.raised THEN with(Raises(web.error), TRUE)
       ELSE with(Returns([stepped EXCEPT !.retrieved_chunks = frame.value,
                                         !.web_results = web.results]), TRUE)

\* frame is the hybrid_search call the stage makes, web the outcome of
\* web_search.search should the stage call it.
retrieve(st, frame, web) ==
    LET stepped == [st EXCEPT !.processing_steps = Append(@, "retrieval")]
        with(outcome, called) ==
            [raised |-> outcome.raised, error |-> outcome.error, state |-> outcome.state,
             web |-> [called |-> called, failed |-> called /\ web.failed]]
    IN IF frame.status # "ok" THEN with(Raises(frame.status), FALSE)
       ELSE IF st.needs_web_search
            THEN IF web.raised THEN with(Raises(web.error), TRUE)
                 ELSE with(Returns([stepped EXCEPT !.retrieved_chunks = frame.value,
                                                   !.web_results = web.results]), TRUE)
       ELSE with(Returns([stepped EXCEPT !.retrieved_chunks = frame.value,
                                         !.web_results = <<>>]), FALSE)

\* --------------------------------------------------------- EmbeddingService

\* A text is a sequence of tokens; " " is a whitespace token.
Whitespace == {" "}

RECURSIVE LStrip(_)
LStrip(text) ==
    IF text # <<>> /\ Head(text) \in Whitespace THEN LStrip(Tail(text)) ELSE text

\* str.strip()
Strip(text) == Reverse(LStrip(Reverse(LStrip(text))))

\* not text or not text.strip()
IsBlank(text) == text = <<>> \/ Strip(text) = <<>>

\* [0.0] * self.dimension
ZeroVector == [i \in 1..embedding_dimension |-> 0]

UnitVector(k) == [i \in 1..embedding_dimension |-> IF i = k THEN 1 ELSE 0]
Slanted == [i \in 1..embedding_dimension |-> IF i = 1 THEN 3 ELSE IF i = 2 THEN 4 ELSE 0]

\* self.model.encode(text): a sentence-transformer is a fixed function of the
\* text; a model is given by the texts it puts on the first and on the second
\* axis, every other text going to the slanted vector.
encode(model, text) ==
    IF text \in model.axis1 THEN UnitVector(1)
    ELSE IF text \in model.axis2 THEN UnitVector(2)
    ELSE Slanted

embed_text(model, text) ==
    IF IsBlank(text) THEN ZeroVector ELSE encode(model, text)

RECURSIVE ValidIndices(_, _)
\* The indices idx >= from of texts with `text and text.strip()`, ascending.
ValidIndices(texts, from) ==
    IF from > Len(texts) THEN <<>>
    ELSE IF ~IsBlank(texts[from]) THEN <<from>> \o ValidIndices(texts, from + 1)
    ELSE ValidIndices(texts, from + 1)

\* embed_batch with the embeddings packed at the front of the result.
embed_batch_packed(model, texts) ==
    LET valid_indices == ValidIndices(texts, 1)
    IN [i \in 1..Len(texts) |->
            IF i <= Len(valid_indices) THEN encode(model, texts[valid_indices[i]])
            ELSE ZeroVector]

embed_batch(model, texts) ==
    IF texts = <<>> THEN <<>>
    ELSE LET valid_indices == ValidIndices(texts, 1)
             valid_texts == [j \in 1..Len(valid_indices) |-> texts[valid_indices[j]]]
             embeddings == [j \in 1..Len(valid_texts) |-> encode(model, valid_texts[j])]
             zeros == [i \in 1..Len(texts) |-> ZeroVector]
         IN IF valid_texts = <<>> THEN zeros
            ELSE [i \in 1..Len(texts) |->
                    IF \E j \in 1..Len(valid_indices) : valid_indices[j] = i
                    THEN embeddings[CHOOSE j \in 1..Len(valid_indices) : valid_indices[j] = i]
                    ELSE zeros[i]]

RECURSIVE DotUpTo(_, _, _)
DotUpTo(vec1, vec2, n) ==
    IF n = 0 THEN 0 ELSE DotUpTo(vec1, vec2, n - 1) + vec1[n] * vec2[n]

\* np.dot(vec1, vec2)
Dot(vec1, vec2) == DotUpTo(vec1, vec2, Len(vec1))

\* np.linalg.norm(vec); the model's vectors have whole norms.
Norm(vec) == CHOOSE r \in 0..Dot(vec, vec) : r * r = Dot(vec, vec)

\* Cosine similarity in tenths, 0 when either norm is 0.
similarity(embedding1, embedding2) ==
    LET dot_product == Dot(embedding1, embedding2)
        norm1 == Norm(embedding1)
        norm2 == Norm(embedding2)
    IN IF norm1 = 0 \/ norm2 = 0 THEN 0
       ELSE (10 * dot_product) \div (norm1 * norm2)

\* ---------------------------------------------------------- ChunkingService

\* A document text is a sequence of items: stretches of text, each with its
\* length in characters after strip(), and "[Page N]\n" markers.
TextItem(id, len) == [marker |-> FALSE, id |-> id, len |-> len, page |-> 0]
PageMarker(n) == [marker |-> TRUE, id |-> "[Page N]", len |-> 0, page |-> n]

\* "[No text content]", which the PDF extraction writes for a page without text.
NoTextContent == TextItem("[No text content]", 17)
\* buffer += " " + content
Space == TextItem(" ", 1)

RECURSIVE TextLen(_)
\* len(text)
TextLen(text) == IF text = <<>> THEN 0 ELSE Head(text).len + TextLen(Tail(text))

\* f"{doc_id}_chunk_{n}"
ChunkIdOf(doc_id, n) == <<doc_id, "_chunk_", n>>

\* Index of the first marker of content, Len(content) + 1 when there is none.
RECURSIVE FirstMarker(_, _)
FirstMarker(content, from) ==
    IF from > Len(content) \/ content[from].marker THEN from
    ELSE FirstMarker(content, from + 1)

RECURSIVE PageSections(_)
\* re.split(page_pattern, content) from the first marker on: the page number
\* and the text of each marker.
PageSections(content) ==
    IF content = <<>> THEN <<>>
    ELSE LET rest == Tail(content)
             stop == FirstMarker(rest, 1)
         IN <<[page_num |-> Head(content).page, page_text |-> SubSeq(rest, 1, stop - 1)]>>
            \o PageSections(SubSeq(rest, stop, Len(rest)))

\* sections = re.split(page_pattern, content): the text before the first
\* marker, then the pages.
Sections(content) ==
    LET first == FirstMarker(content, 1)
    IN [before |-> SubSeq(content, 1, first - 1),
        pages |-> PageSections(SubSeq(content, first, Len(content)))]

\* What self.text_splitter.split_text(text) gives, by how the splitter is
\* configured: the text in one piece, a piece per stretch, or overlapping
\* pieces of two stretches.
SplitModes == {"whole", "stretches", "overlapping"}

split_text(mode, text) ==
    IF text = <<>> THEN <<>>
    ELSE IF mode = "whole" \/ Len(text) = 1 THEN <<text>>
    ELSE IF mode = "stretches" THEN [i \in 1..Len(text) |-> <<text[i]>>]
    ELSE [i \in 1..(Len(text) - 1) |-> <<text[i], text[i + 1]>>]

RECURSIVE Flatten(_)
Flatten(lists) == IF lists = <<>> THEN <<>> ELSE Head(lists) \o Flatten(Tail(lists))

\* len(chunk_text.strip()) < 10
TooSmall(chunk_text) == TextLen(chunk_text) < 10

\* _chunk_with_pages splitting the text of all pages in one go, under the
\* number of the first page.
_chunk_with_pages_joined(mode, sections, metadata) ==
    LET page_text == Flatten([p \in 1..Len(sections.pages) |-> sections.pages[p].page_text])
        kept == SelectSeq(split_text(mode, page_text), LAMBDA piece : ~TooSmall(piece))
    IN [i \in 1..Len(kept) |->
            [chunk_id |-> ChunkIdOf(metadata.doc_id, i - 1),
             content |-> kept[i],
             metadata |-> [doc_id |-> metadata.doc_id,
                           chunk_index |-> i - 1,
                           page_number |-> sections.pages[1].page_num,
                           total_chunks |-> Len(kept)]]]

_chunk_with_pages(mode, sections, metadata) ==
    LET Skipped(page) == page.page_text = <<>> \/ page.page_text = <<NoTextContent>>
        pages == SelectSeq(sections.pages, LAMBDA page : ~Skipped(page))
        page_chunks == [p \in 1..Len(pages) |->
                            [k \in 1..Len(split_text(mode, pages[p].page_text)) |->
                                [page_num |-> pages[p].page_num,
                                 chunk_text |-> split_text(mode, pages[p].page_text)[k]]]]
        kept == SelectSeq(Flatten(page_chunks), LAMBDA piece : ~TooSmall(piece.chunk_text))
        total == Len(kept)
    IN [i \in 1..Len(kept) |->
            [chunk_id |-> ChunkIdOf(metadata.doc_id, i - 1),
             content |-> kept[i].chunk_text,
             metadata |-> [doc_id |-> metadata.doc_id,
                           chunk_index |-> i - 1,
                           page_number |-> kept[i].page_num,
                           total_chunks |-> total]]]

_chunk_plain_text(mode, content, metadata) ==
    LET text_chunks == split_text(mode, content)
        numbered == [idx \in 1..Len(text_chunks) |->
                        [idx |-> idx - 1, chunk_text |-> text_chunks[idx]]]
        kept == SelectSeq(numbered, LAMBDA piece : ~TooSmall(piece.chunk_text))
    IN [i \in 1..Len(kept) |->
            [chunk_id |-> ChunkIdOf(metadata.doc_id, kept[i].idx),
             content |-> kept[i].chunk_text,
             metadata |-> [doc_id |-> metadata.doc_id,
                           chunk_index |-> kept[i].idx,
                           page_number |-> NoPage,
                           total_chunks |-> Len(text_chunks)]]]

chunk_document(mode, content, metadata) ==
    LET sections == Sections(content)
    IN IF sections.pages # <<>>
       THEN _chunk_with_pages(mode, sections, metadata)
       ELSE _chunk_plain_text(mode, content, metadata)

\* buffer_metadata = None
NoMetadata == [doc_id |-> "None", chunk_index |-> 0, page_number |-> NoPage,
               total_chunks |-> 0]

\* Accumulate with the buffer replaced by the latest small chunk.
AccumulateLatest(buffer, content) == content

\* buffer += " " + content, or buffer = content for an empty buffer
Accumulate(buffer, content) ==
    IF buffer # <<>> THEN buffer \o <<Space>> \o content ELSE content

\* The chunk a non-empty buffer is flushed as.
Flushed(merged, buffer, buffer_metadata) ==
    [chunk_id |-> ChunkIdOf(buffer_metadata.doc_id, Len(merged)),
     content |-> buffer,
     metadata |-> buffer_metadata]

RECURSIVE MergeLoop(_, _, _, _, _, _)
\* The loop over chunks from index i on, and the flush after it.
MergeLoop(chunks, i, min_size, merged, buffer, buffer_metadata) ==
    IF i > Len(chunks)
    THEN IF buffer # <<>> /\ buffer_metadata # NoMetadata
         THEN Append(merged, Flushed(merged, buffer, buffer_metadata))
         ELSE merged
    ELSE LET chunk == chunks[i]
             content == chunk.content
         IN IF TextLen(content) < min_size
            THEN MergeLoop(chunks, i + 1, min_size, merged,
                           Accumulate(buffer, content),
                           IF buffer # <<>> THEN buffer_metadata ELSE chunk.metadata)
            ELSE IF buffer # <<>>
                 THEN MergeLoop(chunks, i + 1, min_size,
                                Append(Append(merged, Flushed(merged, buffer, buffer_metadata)),
                                       chunk),
                                <<>>, NoMetadata)
                 ELSE MergeLoop(chunks, i + 1, min_size, Append(merged, chunk),
                                buffer, buffer_metadata)

merge_small_chunks(chunks, min_size) ==
    IF chunks = <<>> THEN <<>>
    ELSE LET merged == MergeLoop(chunks, 1, min_size, <<>>, <<>>, NoMetadata)
         IN [idx \in 1..Len(merged) |->
                [merged[idx] EXCEPT !.metadata.chunk_index = idx - 1,
                                    !.metadata.total_chunks = Len(merged)]]

\* ---------------------------------------------------------- RerankingAgent

\* RerankScore with the two weights exchanged.
RerankScoreSwapped(similarity_, existing_score) ==
    <<400 * similarity_ * existing_score[2] + 6 * existing_score[1],
      10 * existing_score[2]>>

\* final_score = (similarity * 0.6) + (existing_score * 0.4), on the scale of
\* the fused scores; similarity is in tenths.
RerankScore(similarity_, existing_score) ==
    <<600 * similarity_ * existing_score[2] + 4 * existing_score[1],
      10 * existing_score[2]>>

RECURSIVE InsertByRerankScore(_, _)
InsertByRerankScore(s, x) ==
    IF s = <<>> THEN <<x>>
    ELSE IF FracLess(Head(s).rerank_score, x.rerank_score)
         THEN <<x>> \o s
         ELSE <<Head(s)>> \o InsertByRerankScore(Tail(s), x)

\* SortedByRerankScore leaving the chunks in the order given.
SortedAsGiven(s) == s

RECURSIVE SortedByRerankScore(_)
SortedByRerankScore(s) ==
    IF s = <<>> THEN <<>>
    ELSE InsertByRerankScore(SortedByRerankScore(SubSeq(s, 1, Len(s) - 1)), s[Len(s)])

\* chunk.get('score', 0.5)
ExistingScore(chunk) == IF "score" \in DOMAIN chunk THEN chunk.score ELSE <<500, 1>>

\* ScoredChunk with the blended score written over the chunk's score as well.
ScoredChunkRescored(chunk, query_embedding, model) ==
    LET chunk_embedding == embed_text(model, chunk.content)
        similarity_ == similarity(query_embedding, chunk_embedding)
    IN [rerank_score |-> RerankScore(similarity_, ExistingScore(chunk)),
        similarity |-> similarity_,
        score |-> RerankScore(similarity_, ExistingScore(chunk))] @@ chunk

\* One pass of the scoring loop: {**chunk, 'rerank_score': ..., 'similarity': ...}
ScoredChunk(chunk, query_embedding, model) ==
    LET chunk_embedding == embed_text(model, chunk.content)
        similarity_ == similarity(query_embedding, chunk_embedding)
    IN [rerank_score |-> RerankScore(similarity_, ExistingScore(chunk)),
        similarity |-> similarity_] @@ chunk

\* rerank writing the new score back into the chunks it was given.
rerank_rescoring(st, cfg, embedding) ==
    LET chunks == st.retrieved_chunks
        stepped == [st EXCEPT !.processing_steps = Append(@, "reranking")]
        query_embedding == embed_text(embedding.model, st.query)
        scored_chunks ==
            [i \in 1..Len(chunks) |-> ScoredChunk(chunks[i], query_embedding, embedding.model)]
        rescored ==
            [i \in 1..Len(chunks) |->
                [score |-> scored_chunks[i].rerank_score] @@ chunks[i]]
    IN IF chunks = <<>> THEN Returns([stepped EXCEPT !.reranked_chunks = <<>>])
       ELSE IF embedding.failed THEN Raises("EmbeddingError")
       ELSE Returns([stepped EXCEPT
                !.retrieved_chunks = rescored,
                !.reranked_chunks =
                    Take(SortedByRerankScore(scored_chunks), cfg.reranking_top_k)])

\* embedding is what the embedding service does for this call: its model, and
\* whether encoding raises.
rerank(st, cfg, embedding) ==
    LET chunks == st.retrieved_chunks
        stepped == [st EXCEPT !.processing_steps = Append(@, "reranking")]
        query_embedding == embed_text(embedding.model, st.query)
        scored_chunks ==
            [i \in 1..Len(chunks) |-> ScoredChunk(chunks[i], query_embedding, embedding.model)]
    IN IF chunks = <<>> THEN Returns([stepped EXCEPT !.reranked_chunks = <<>>])
       ELSE IF embedding.failed THEN Raises("EmbeddingError")
       ELSE Returns([stepped EXCEPT !.reranked_chunks =
                Take(SortedByRerankScore(scored_chunks), cfg.reranking_top_k)])

\* --------------------------------------------------------- GenerationAgent

_fallback_response(chunks, web_results) ==
    IF chunks = <<>> /\ web_results = <<>>
    THEN "I don't have enough information to answer your question."
    ELSE "Based on the available information"

\* What self.llm.invoke(messages) can do: raise, or answer with a text that
\* strip() leaves non-empty or empty.
LLMGenerations == {[failed |-> TRUE, text |-> ""], [failed |-> FALSE, text |-> "answer"],
                   [failed |-> FALSE, text |-> ""]}

\* _llm_generate returning an empty text when the LLM call fails.
_llm_generate_silent(answer) == IF answer.failed THEN "" ELSE answer.text

\* try: response = self.llm.invoke(messages); return response.strip()
\* except Exception as e: return f"I apologize, but ... {str(e)}"
_llm_generate(answer) ==
    IF answer.failed
    THEN "I apologize, but I encountered an error generating a response"
    ELSE answer.text

generate(st, cfg, answer) ==
    LET stepped == [st EXCEPT !.processing_steps = Append(@, "generation")]
    IN IF cfg.huggingface_api_key = ""
       THEN Returns([stepped EXCEPT !.generated_response =
                _fallback_response(st.reranked_chunks, st.web_results)])
       ELSE Returns([stepped EXCEPT !.generated_response = _llm_generate(answer)])

\* ------------------------------------------------------------ CitationAgent

add_citations(st) ==
    LET response == st.generated_response
        chunks == Take(st.reranked_chunks, 5)
        web_results == Take(st.web_results, 3)
        stepped == [st EXCEPT !.processing_steps = Append(@, "citation")]
        citations ==
            [i \in 1..Len(chunks) |->
                [id |-> i, type |-> "document", ref |-> chunks[i].chunk_id]]
            \o [i \in 1..Len(web_results) |->
                [id |-> Len(chunks) + i, type |-> "web", ref |-> web_results[i].url]]
    IN IF response = "None" \/ response = ""
       THEN Returns([stepped EXCEPT !.final_response = [body |-> "", sources |-> <<>>],
                                    !.citations = <<>>])
       ELSE Returns([stepped EXCEPT
                !.citations = citations,
                !.final_response = [body |-> response, sources |-> citations]])

\* -------------------------------------------------------------- RAGWorkflow

\* workflow.set_entry_point("query_analysis")
EntryPoint == "query_analysis"

\* The edges with reranking left out of the chain.
EdgeSkippingReranking ==
    [query_analysis |-> "retrieval",
     retrieval |-> "generation",
     reranking |-> "generation",
     generation |-> "citation",
     citation |-> "END"]

\* workflow.add_edge(...)
Edge ==
    [query_analysis |-> "retrieval",
     retrieval |-> "reranking",
     reranking |-> "generation",
     generation |-> "citation",
     citation |-> "END"]

\* ------------------------------------------------------------------ state

VARIABLES
    rrf,            \* frame of a direct _reciprocal_rank_fusion call
    bm25_index,     \* HybridSearch.bm25_index
    bm25_corpus,    \* HybridSearch.bm25_corpus
    bm25_metadata,  \* HybridSearch.bm25_metadata
    hs,             \* frame of the hybrid_search call in progress or just made
    settings,       \* backend.config.settings
    pc,             \* the graph node RAGWorkflow.run is about to execute
    state,          \* the AgentState handed from node to node
    web,            \* this run's call of web_search.search: made, failed
    exc,            \* the exception graph.ainvoke raised in this run, if any
    returned,       \* what RAGWorkflow.run handed back to its caller
    last_indexed,   \* the latest index_for_bm25 call: made, its chunks
    store_raised,   \* whether similarity_search raised in the call of frame hs
    bs,             \* frame of the _bm25_search call in progress or just made
    ib,             \* frame of the index_for_bm25 call in progress
    runs,           \* the RAGWorkflow.run calls in progress side by side
    heap,           \* the AgentState objects those calls have built
    mcp,            \* MCPClient.process_document and the POST /process it makes
    gen,            \* this run's call of self.llm.invoke in generation: made, failed
    rr,             \* direct calls of RerankingAgent.rerank on one state
    emb,            \* direct calls of the EmbeddingService on one list of texts
    ck              \* frame of a direct ChunkingService call

bm25 == <<bm25_index, bm25_corpus, bm25_metadata, last_indexed>>
call == <<hs, store_raised, bs, ib>>
conc == <<runs, heap, mcp, gen>>
pipeline == <<settings, pc, state, web, exc, returned>>
services == <<rr, emb, ck>>
vars == <<rrf, bm25_index, bm25_corpus, bm25_metadata, last_indexed, hs, store_raised,
          bs, ib, runs, heap, mcp, gen, settings, pc, state, web, exc, returned, rr, emb, ck>>


\* ------------------------------------------- direct calls of the retriever

FusionWeights == {<<700, 300>>, <<500, 500>>, <<200, 800>>}

RankedLists == {HitsOf(ids) : ids \in SeqsUpTo(ChunkIds, MaxLen)}

IdleRrf == [called |-> FALSE, dense |-> <<>>, sparse |-> <<>>,
            dense_weight |-> 0, sparse_weight |-> 0, result |-> <<>>]

\* A caller applies _reciprocal_rank_fusion to two ranked lists.
RrfCall ==
    /\ ~rrf.called
    /\ rrf' = [rrf EXCEPT
            !.called = TRUE,
            !.result = _reciprocal_rank_fusion(
                rrf.dense, rrf.sparse, rrf.dense_weight, rrf.sparse_weight)]
    /\ UNCHANGED <<conc, bm25, call, pipeline, services>>

\* The chunk lists a caller hands to index_for_bm25.
Corpora(n) == {HitsOf(ids) : ids \in SeqsUpTo(ChunkIds, n)}

\* index_for_bm25 returning on an empty chunk list without dropping the index.
index_for_bm25_keeping(chunks) ==
    /\ IF chunks = <<>>
       THEN /\ bm25_index' = bm25_index
            /\ bm25_corpus' = bm25_corpus
            /\ bm25_metadata' = bm25_metadata
       ELSE /\ bm25_corpus' = [i \in 1..Len(chunks) |-> chunks[i].content]
            /\ bm25_metadata' = chunks
            /\ bm25_index' = [built |-> TRUE,
                              docs |-> [i \in 1..Len(chunks) |-> chunks[i].content]]

\* HybridSearch.index_for_bm25(chunks)
index_for_bm25(chunks) ==
    /\ IF chunks = <<>>
       THEN /\ bm25_index' = NoIndex
            /\ bm25_corpus' = <<>>
            /\ bm25_metadata' = <<>>
       ELSE /\ bm25_corpus' = [i \in 1..Len(chunks) |-> chunks[i].content]
            /\ bm25_metadata' = chunks
            /\ bm25_index' = [built |-> TRUE,
                              docs |-> [i \in 1..Len(chunks) |-> chunks[i].content]]

IndexForBm25 ==
    /\ hs.status = "idle"
    /\ bs.pc = "idle"
    /\ \E chunks \in Corpora(MaxCorpus) :
        /\ index_for_bm25(chunks)
        /\ last_indexed' = [called |-> TRUE, chunks |-> chunks]
    /\ UNCHANGED <<rrf, conc, call, pipeline, services>>

\* The BM25 library's answers for one query over the indexed documents.
Bm25Answers(index) ==
    {[scores |-> sc, order |-> o] :
        <<sc, o>> \in {p \in [1..Len(index.docs) -> ScoreLevels]
                              \X SeqsUpTo(1..Len(index.docs), Len(index.docs)) :
                        p[2] \in ArgSorts(p[1])}}

\* A caller awaits hybrid_search(query, top_k, dense_weight, sparse_weight).
HybridSearchCall ==
    /\ hs.status = "idle"
    /\ \E top_k \in 1..MaxTopK, w \in WeightPairs :
       \E store \in StoreAnswers(top_k * 2), lib \in Bm25Answers(bm25_index) :
           LET frame == hybrid_search(top_k, w[1], w[2], store, bm25_index, bm25_corpus,
                                      bm25_metadata, lib.scores, lib.order)
           IN /\ hs' = frame
              /\ store_raised' = (frame.store_called /\ store.raised)
    /\ UNCHANGED <<rrf, conc, bm25, bs, ib, pipeline, services>>

\* The call has returned or raised; its frame is gone.
HybridSearchReturn ==
    /\ hs.status # "idle"
    /\ hs' = IdleFrame
    /\ store_raised' = FALSE
    /\ UNCHANGED <<rrf, conc, bm25, bs, ib, pipeline, services>>

\* ------------------------------------- _bm25_search, statement by statement

NoChunk == [chunk_id |-> "", content |-> <<>>, metadata |-> <<>>]

IdleSearch ==
    [pc |-> "idle", top_k |-> 0, index |-> NoIndex, scores |-> <<>>,
     top_indices |-> <<>>, i |-> 0, chunk |-> NoChunk, results |-> <<>>]

IdleBuild == [pc |-> "idle", chunks |-> <<>>]

\* A caller enters _bm25_search(query, top_k): if self.bm25_index is None:
\* return []; otherwise the query is tokenized.
Bm25SearchCall ==
    /\ bs.pc = "idle"
    /\ hs.status = "idle"
    /\ \E top_k \in 1..MaxTopK :
        bs' = IF ~bm25_index.built
              THEN [IdleSearch EXCEPT !.pc = "returned", !.top_k = top_k]
              ELSE [IdleSearch EXCEPT !.pc = "tokenized", !.top_k = top_k]
    /\ UNCHANGED <<rrf, conc, bm25, hs, store_raised, ib, pipeline, services>>

\* scores = self.bm25_index.get_scores(tokenized_query);
\* top_indices = np.argsort(scores)[::-1][:top_k].  self.bm25_index is read
\* again here: None has no get_scores.
Bm25SearchScore ==
    /\ bs.pc = "tokenized"
    /\ IF ~bm25_index.built
       THEN bs' = [bs EXCEPT !.pc = "AttributeError"]
       ELSE \E lib \in Bm25Answers(bm25_index) :
                bs' = [bs EXCEPT !.pc = "loop", !.index = bm25_index,
                                 !.scores = lib.scores,
                                 !.top_indices = TopIndices(lib.order, bs.top_k),
                                 !.i = 1]
    /\ UNCHANGED <<rrf, conc, bm25, hs, store_raised, ib, pipeline, services>>

\* for idx in top_indices: if scores[idx] > 0: chunk = self.bm25_metadata[idx];
\* after the last index, return results.
Bm25SearchReadChunk ==
    /\ bs.pc = "loop"
    /\ bs' = IF bs.i > Len(bs.top_indices)
             THEN [bs EXCEPT !.pc = "returned"]
             ELSE LET idx == bs.top_indices[bs.i]
                  IN IF bs.scores[idx] > 0
                     THEN IF idx > Len(bm25_metadata)
                          THEN [bs EXCEPT !.pc = "IndexError"]
                          ELSE [bs EXCEPT !.pc = "append", !.chunk = bm25_metadata[idx]]
                     ELSE [bs EXCEPT !.i = @ + 1]
    /\ UNCHANGED <<rrf, conc, bm25, hs, store_raised, ib, pipeline, services>>

\* results.append({'chunk_id': ..., 'score': float(scores[idx]),
\*                 'content': self.bm25_corpus[idx], 'metadata': ...})
Bm25SearchAppend ==
    /\ bs.pc = "append"
    /\ LET idx == bs.top_indices[bs.i]
       IN bs' = IF idx > Len(bm25_corpus)
                THEN [bs EXCEPT !.pc = "IndexError"]
                ELSE [bs EXCEPT !.pc = "loop", !.i = @ + 1, !.chunk = NoChunk,
                                !.results = Append(@, [chunk_id |-> bs.chunk.chunk_id,
                                                       score |-> bs.scores[idx],
                                                       content |-> bm25_corpus[idx],
                                                       metadata |-> bs.chunk.metadata])]
    /\ UNCHANGED <<rrf, conc, bm25, hs, store_raised, ib, pipeline, services>>

\* The call has returned or raised; its frame is gone.
Bm25SearchReturn ==
    /\ bs.pc \in {"returned", "AttributeError", "IndexError"}
    /\ bs' = IdleSearch
    /\ UNCHANGED <<rrf, conc, bm25, hs, store_raised, ib, pipeline, services>>

\* ----------------------------------- index_for_bm25, statement by statement

\* The chunk lists of the rebuilds that run while searches are in flight.
RebuildCorpora == {<<>>, HitsOf(<<"A">>), HitsOf(<<"A", "B">>), HitsOf(<<"C", "A">>)}

\* A caller enters index_for_bm25(chunks) and its first assignment is made:
\* self.bm25_index = None for an empty list, self.bm25_corpus = [...] otherwise.
IndexForBm25Begin ==
    /\ ib.pc = "idle"
    /\ \E chunks \in RebuildCorpora :
        IF chunks = <<>>
        THEN /\ bm25_index' = NoIndex
             /\ ib' = [pc |-> "empty_corpus", chunks |-> chunks]
             /\ UNCHANGED <<bm25_corpus, bm25_metadata>>
        ELSE /\ bm25_corpus' = [i \in 1..Len(chunks) |-> chunks[i].content]
             /\ ib' = [pc |-> "metadata", chunks |-> chunks]
             /\ UNCHANGED <<bm25_index, bm25_metadata>>
    /\ UNCHANGED <<rrf, conc, last_indexed, hs, store_raised, bs, pipeline, services>>

\* The next assignment of the index_for_bm25 call in progress; after the last
\* one the call returns.
IndexForBm25Step ==
    /\ ib.pc # "idle"
    /\ CASE ib.pc = "empty_corpus" ->
              /\ bm25_corpus' = <<>>
              /\ ib' = [ib EXCEPT !.pc = "empty_metadata"]
              /\ UNCHANGED <<bm25_index, bm25_metadata, last_indexed>>
         [] ib.pc = "empty_metadata" ->
              /\ bm25_metadata' = <<>>
              /\ ib' = IdleBuild
              /\ last_indexed' = [called |-> TRUE, chunks |-> ib.chunks]
              /\ UNCHANGED <<bm25_index, bm25_corpus>>
         [] ib.pc = "metadata" ->
              /\ bm25_metadata' = ib.chunks
              /\ ib' = [ib EXCEPT !.pc = "index"]
              /\ UNCHANGED <<bm25_index, bm25_corpus, last_indexed>>
         [] ib.pc = "index" ->
              /\ bm25_index' = [built |-> TRUE,
                                docs |-> [i \in 1..Len(ib.chunks) |-> ib.chunks[i].content]]
              /\ ib' = IdleBuild
              /\ last_indexed' = [called |-> TRUE, chunks |-> ib.chunks]
              /\ UNCHANGED <<bm25_corpus, bm25_metadata>>
    /\ UNCHANGED <<rrf, conc, hs, store_raised, bs, pipeline, services>>

\* ----------------------------------------------------- RAGWorkflow.run

\* The process configurations: web_search_provider and tavily_api_key (the
\* key is read by the Tavily branch only), and whether an LLM is configured.
WebConfigs == {<<"duckduckgo", "">>, <<"tavily", "">>, <<"tavily", "tvly-key">>,
               <<"bing", "">>}

SettingsSpace ==
    {[web_search_provider |-> w[1], tavily_api_key |-> w[2], huggingface_api_key |-> k,
      reranking_top_k |-> reranking_top_k] :
        w \in WebConfigs, k \in {"", "hf-key"}}

\* What the vector store answers a pipeline query with: an exception, or the
\* ranking of what is stored.
PipelineStoreAnswers ==
    {[raised |-> TRUE, hits |-> <<>>]} \cup
    {[raised |-> FALSE, hits |-> HitsOf(ids)] :
        ids \in {<<>>, <<"A", "B">>, <<"C", "A", "B">>}}

\* The embedding models: which chunk contents lie on which axis.
Models ==
    {[axis1 |-> {ContentOf(c) : c \in low}, axis2 |-> {ContentOf(c) : c \in ChunkIds \ low}] :
        low \in {{}, {"A"}, {"A", "C"}}}

\* What the embedding service does for one reranking call.
PipelineEmbeddings ==
    {[failed |-> f, model |-> m] : f \in BOOLEAN, m \in Models}

DefaultSettings ==
    [web_search_provider |-> "duckduckgo", tavily_api_key |-> "",
     huggingface_api_key |-> "", reranking_top_k |-> reranking_top_k]

NotReturned == [done |-> FALSE, value |-> NoRun]
NoWebCall == [called |-> FALSE, failed |-> FALSE]
NoLLMCall == [called |-> FALSE, failed |-> FALSE]

\* The handler returning initial_state without recording the exception.
FailureReturnsUnrecorded(query, error, steps) ==
    {[done |-> TRUE,
      value |-> [InitialState(query) EXCEPT !.processing_steps = ps]] :
        ps \in {<<>>, steps}}

\* except Exception as e: initial_state["error"] = str(e); return initial_state.
\* initial_state holds the lists it was built with; whether its processing_steps
\* list is the one the nodes appended to is up to the graph runtime.
FailureReturns(query, error, steps) ==
    {[done |-> TRUE,
      value |-> [InitialState(query) EXCEPT !.error = error, !.processing_steps = ps]] :
        ps \in {<<>>, steps}}

\* The graph runtime after a node: on an exception ainvoke raises and run
\* returns; otherwise the edge out of the node is followed, and run returns
\* the final state once it leads to END.
AfterNode(node, outcome) ==
    IF outcome.raised
    THEN /\ pc' = "END"
         /\ exc' = outcome.error
         /\ state' = [state EXCEPT !.processing_steps = Append(@, node)]
         /\ returned' \in FailureReturns(state.query, outcome.error,
                                         Append(state.processing_steps, node))
    ELSE /\ pc' = Edge[node]
         /\ exc' = exc
         /\ state' = outcome.state
         /\ returned' = IF Edge[node] = "END"
                        THEN [done |-> TRUE, value |-> outcome.state]
                        ELSE returned

\* A caller awaits RAGWorkflow.run(query).
Run ==
    /\ pc \in {"idle", "END"}
    /\ \E query \in Queries : state' = InitialState(query)
    /\ pc' = EntryPoint
    /\ web' = NoWebCall
    /\ exc' = "None"
    /\ returned' = NotReturned
    /\ hs' = IdleFrame
    /\ store_raised' = FALSE
    /\ gen' = NoLLMCall
    /\ UNCHANGED <<rrf, runs, heap, mcp, bm25, bs, ib, settings, services>>

QueryAnalysis ==
    /\ pc = "query_analysis"
    /\ \E answer \in LLMAnalyses : AfterNode("query_analysis", analyze(state, settings, answer))
    /\ UNCHANGED <<rrf, conc, bm25, call, settings, web, services>>

Retrieval ==
    /\ pc = "retrieval"
    /\ \E store \in PipelineStoreAnswers, lib \in Bm25Answers(bm25_index),
          answer \in ProviderAnswers :
        LET frame == hybrid_search(retrieval_top_k, RetrievalDenseWeight,
                                   RetrievalSparseWeight, store, bm25_index,
                                   bm25_corpus, bm25_metadata, lib.scores, lib.order)
            outcome == retrieve(state, frame, search(settings, answer))
        IN /\ hs' = frame
           /\ store_raised' = (frame.store_called /\ store.raised)
           /\ web' = outcome.web
           /\ AfterNode("retrieval", outcome)
    /\ UNCHANGED <<rrf, conc, bm25, bs, ib, settings, services>>

Reranking ==
    /\ pc = "reranking"
    /\ \E embedding \in PipelineEmbeddings : AfterNode("reranking", rerank(state, settings, embedding))
    /\ UNCHANGED <<rrf, conc, bm25, call, settings, web, services>>

Generation ==
    /\ pc = "generation"
    /\ \E answer \in LLMGenerations :
        /\ AfterNode("generation", generate(state, settings, answer))
        /\ gen' = [called |-> settings.huggingface_api_key # "",
                   failed |-> settings.huggingface_api_key # "" /\ answer.failed]
    /\ UNCHANGED <<rrf, runs, heap, mcp, bm25, call, settings, web, services>>

Citation ==
    /\ pc = "citation"
    /\ AfterNode("citation", add_citations(state))
    /\ UNCHANGED <<rrf, conc, bm25, call, settings, web, services>>

\* ------------------------------------------------ process_query, as wired

\* A HybridSearch whose constructor indexes the stored chunks for BM25.
NewHybridSearchIndexed ==
    [bm25_index |-> [built |-> TRUE, docs |-> <<ContentOf("B"), ContentOf("A")>>],
     bm25_corpus |-> <<ContentOf("B"), ContentOf("A")>>,
     bm25_metadata |-> HitsOf(<<"B", "A">>)]

\* HybridSearch.__init__
NewHybridSearch ==
    [bm25_index |-> NoIndex, bm25_corpus |-> <<>>, bm25_metadata |-> <<>>]

\* POST /query: vector_store = VectorStore(); hybrid_search =
\* HybridSearch(vector_store); workflow = RAGWorkflow(hybrid_search);
\* await workflow.run(request.query, conversation_id)
ProcessQuery ==
    /\ pc \in {"idle", "END"}
    /\ bm25_index' = NewHybridSearch.bm25_index
    /\ bm25_corpus' = NewHybridSearch.bm25_corpus
    /\ bm25_metadata' = NewHybridSearch.bm25_metadata
    /\ last_indexed' = [called |-> FALSE, chunks |-> <<>>]
    /\ \E query \in Queries : state' = InitialState(query)
    /\ pc' = EntryPoint
    /\ web' = NoWebCall
    /\ exc' = "None"
    /\ returned' = NotReturned
    /\ hs' = IdleFrame
    /\ store_raised' = FALSE
    /\ gen' = NoLLMCall
    /\ UNCHANGED <<rrf, runs, heap, mcp, bs, ib, settings, services>>

\* ------------------------------------------ RAGWorkflow.run, side by side

\* The run calls that are in progress together on one event loop.
ConcurrentRuns == {1, 2}

\* One AgentState object for both calls, in place of one built by each.
AllocShared(r) == 1

\* initial_state = AgentState(...): each call of run builds its own object.
AllocState(r) == r

NoObject == [state |-> NoRun, writers |-> {}]

NoInput ==
    [analysis |-> [failed |-> TRUE, query_type |-> "None", needs_web_search |-> FALSE,
                   search_keywords |-> <<>>],
     store |-> [raised |-> FALSE, hits |-> <<>>],
     provider |-> [failed |-> FALSE, n |-> 0],
     embedding |-> [failed |-> FALSE, model |-> [axis1 |-> {}, axis2 |-> {}]],
     generation |-> [failed |-> TRUE, text |-> ""]]

\* overlapped: a node of this call has run while the other call was in progress.
IdleRun == [pc |-> "idle", query |-> <<>>, ref |-> 0, inputs |-> <<>>,
            overlapped |-> FALSE, returned |-> NotReturned]

NoFile == [ext |-> "", content |-> <<>>, mode |-> "whole"]
NoResponse == [status_code |-> 0, body |-> <<>>]
IdleMcp == [pc |-> "idle", running |-> FALSE, file |-> NoFile, response |-> NoResponse,
            result |-> <<>>]

NoRuns ==
    /\ runs = [r \in ConcurrentRuns |-> IdleRun]
    /\ heap = [ref \in ConcurrentRuns |-> NoObject]

\* What the collaborators of a node answer while two runs are in progress.
StageInputs(node) ==
    CASE node = "query_analysis" -> {NoInput}
      [] node = "retrieval" ->
            {[NoInput EXCEPT !.store = s, !.provider = a] :
                s \in {[raised |-> TRUE, hits |-> <<>>],
                        [raised |-> FALSE, hits |-> HitsOf(<<"A", "B">>)]},
                a \in {[failed |-> TRUE, n |-> 0], [failed |-> FALSE, n |-> 1]}}
      [] node = "reranking" ->
            {[NoInput EXCEPT !.embedding = [failed |-> f,
                                            model |-> [axis1 |-> {ContentOf("A")},
                                                       axis2 |-> {ContentOf("B")}]]] :
                f \in BOOLEAN}
      [] node = "generation" -> {NoInput}
      [] node = "citation" -> {NoInput}

\* The node's agent method applied to the state object it is handed.
StageOutcome(node, st, input) ==
    CASE node = "query_analysis" -> analyze(st, settings, input.analysis)
      [] node = "retrieval" ->
            LET frame == hybrid_search(retrieval_top_k, RetrievalDenseWeight,
                                       RetrievalSparseWeight, input.store, bm25_index,
                                       bm25_corpus, bm25_metadata, <<>>, <<>>)
                outcome == retrieve(st, frame, search(settings, input.provider))
            IN [raised |-> outcome.raised, error |-> outcome.error,
                state |-> outcome.state]
      [] node = "reranking" -> rerank(st, settings, input.embedding)
      [] node = "generation" -> generate(st, settings, input.generation)
      [] node = "citation" -> add_citations(st)

\* A caller awaits RAGWorkflow.run(query) while another call may be in progress.
ConcurrentRun ==
    /\ \E r \in ConcurrentRuns, query \in Queries :
        /\ runs[r].pc = "idle"
        /\ runs' = [runs EXCEPT ![r] = [IdleRun EXCEPT !.pc = EntryPoint, !.query = query,
                                                       !.ref = AllocState(r)]]
        /\ heap' = [heap EXCEPT ![AllocState(r)] =
                        [state |-> InitialState(query), writers |-> {r}]]
    /\ UNCHANGED <<rrf, mcp, gen, bm25, call, pipeline, services>>

\* The graph runs the next node of one of the calls on that call's state: the
\* node writes the state it was handed, ainvoke raises or follows the edge, and
\* run returns once the edge leads to END.
ConcurrentStage ==
    /\ \E r \in ConcurrentRuns :
        /\ runs[r].pc \in DOMAIN Edge
        /\ \E input \in StageInputs(runs[r].pc) :
            LET node == runs[r].pc
                ref == runs[r].ref
                st == heap[ref].state
                outcome == StageOutcome(node, st, input)
                steps == Append(st.processing_steps, node)
                overlaps == \E o \in ConcurrentRuns \ {r} : runs[o].pc \in DOMAIN Edge
            IN IF outcome.raised
               THEN /\ heap' = [heap EXCEPT ![ref].state.processing_steps = steps,
                                            ![ref].writers = @ \cup {r}]
                    /\ \E ret \in FailureReturns(st.query, outcome.error, steps) :
                          runs' = [runs EXCEPT ![r].pc = "END",
                                               ![r].inputs = Append(@, input),
                                               ![r].overlapped = @ \/ overlaps,
                                               ![r].returned = ret]
               ELSE /\ heap' = [heap EXCEPT ![ref].state = outcome.state,
                                            ![ref].writers = @ \cup {r}]
                    /\ runs' = [runs EXCEPT
                            ![r].pc = Edge[node],
                            ![r].inputs = Append(@, input),
                            ![r].overlapped = @ \/ overlaps,
                            ![r].returned = IF Edge[node] = "END"
                                            THEN [done |-> TRUE, value |-> outcome.state]
                                            ELSE @]
    /\ UNCHANGED <<rrf, mcp, gen, bm25, call, pipeline, services>>

\* ---------------------------------------------------------- specifications

\* given: the retrieved chunks of the state as the caller built it.
IdleRerank == [calls |-> 0, raised |-> FALSE, model |-> [axis1 |-> {}, axis2 |-> {}],
               state |-> NoRun, given |-> <<>>, results |-> <<>>]
IdleEmbedder == [model |-> [axis1 |-> {}, axis2 |-> {}], texts |-> <<>>,
                 batch_called |-> FALSE, batch |-> <<>>, singles |-> <<>>,
                 sim |-> [called |-> FALSE, embedding1 |-> <<>>, embedding2 |-> <<>>,
                          value |-> 0]]
IdleChunker == [op |-> "idle", calls |-> 0, mode |-> "whole", content |-> <<>>,
                collected |-> <<>>, min_size |-> 0, result |-> <<>>]

IdleServices ==
    /\ rr = IdleRerank
    /\ emb = IdleEmbedder
    /\ ck = IdleChunker

IdlePipeline ==
    /\ pc = "idle"
    /\ state = NoRun
    /\ web = NoWebCall
    /\ exc = "None"
    /\ returned = NotReturned

NeverIndexed == [called |-> FALSE, chunks |-> <<>>]

NoBm25 ==
    /\ bm25_index = NoIndex
    /\ bm25_corpus = <<>>
    /\ bm25_metadata = <<>>
    /\ last_indexed = NeverIndexed

\* The fusion function on its own: two ranked lists and two weights.
InitFusion ==
    /\ \E d \in RankedLists, sp \in RankedLists, w \in FusionWeights :
        rrf = [IdleRrf EXCEPT !.dense = d, !.sparse = sp,
                              !.dense_weight = w[1], !.sparse_weight = w[2]]
    /\ NoBm25
    /\ hs = IdleFrame
    /\ store_raised = FALSE
    /\ bs = IdleSearch
    /\ ib = IdleBuild
    /\ NoRuns
    /\ mcp = IdleMcp
    /\ gen = NoLLMCall
    /\ settings = DefaultSettings
    /\ IdlePipeline
    /\ IdleServices

NextFusion == RrfCall

SpecFusion == InitFusion /\ [][NextFusion]_vars

\* The ranked lists in which a chunk_id may occur more than once.
RepeatingLists ==
    {HitsOf(ids) : ids \in UNION {[1..n -> {"A", "B", "C"}] : n \in 0..MaxLen}}

\* The fusion function on lists that repeat chunk_ids.
InitFusionRepeats ==
    /\ \E d \in RepeatingLists, sp \in RepeatingLists, w \in FusionWeights :
        rrf = [IdleRrf EXCEPT !.dense = d, !.sparse = sp,
                              !.dense_weight = w[1], !.sparse_weight = w[2]]
    /\ NoBm25
    /\ hs = IdleFrame
    /\ store_raised = FALSE
    /\ bs = IdleSearch
    /\ ib = IdleBuild
    /\ NoRuns
    /\ mcp = IdleMcp
    /\ gen = NoLLMCall
    /\ settings = DefaultSettings
    /\ IdlePipeline
    /\ IdleServices

SpecFusionRepeats == InitFusionRepeats /\ [][NextFusion]_vars

\* A HybridSearch instance and its callers.
InitHybrid ==
    /\ rrf = IdleRrf
    /\ NoBm25
    /\ hs = IdleFrame
    /\ store_raised = FALSE
    /\ bs = IdleSearch
    /\ ib = IdleBuild
    /\ NoRuns
    /\ mcp = IdleMcp
    /\ gen = NoLLMCall
    /\ settings = DefaultSettings
    /\ IdlePipeline
    /\ IdleServices

NextHybrid == IndexForBm25 \/ HybridSearchCall \/ HybridSearchReturn

SpecHybrid == InitHybrid /\ [][NextHybrid]_vars

\* A HybridSearch instance whose sparse leg is called directly, one call of
\* index_for_bm25 or _bm25_search at a time.
NextSparse ==
    \/ IndexForBm25
    \/ Bm25SearchCall
    \/ Bm25SearchScore
    \/ Bm25SearchReadChunk
    \/ Bm25SearchAppend
    \/ Bm25SearchReturn

SpecSparse == InitHybrid /\ [][NextSparse]_vars

\* The same instance with index_for_bm25 and _bm25_search called from two
\* threads: the statements of the two calls interleave.
NextSparseThreads ==
    \/ IndexForBm25Begin
    \/ IndexForBm25Step
    \/ Bm25SearchCall
    \/ Bm25SearchScore
    \/ Bm25SearchReadChunk
    \/ Bm25SearchAppend
    \/ Bm25SearchReturn

SpecSparseThreads == InitHybrid /\ [][NextSparseThreads]_vars

\* The sparse indexes a workflow's HybridSearch can hold when run is called.
PipelineCorpora == {<<>>, HitsOf(<<"B", "A">>)}

\* A RAGWorkflow over a HybridSearch instance, under one process configuration.
Init ==
    /\ rrf = IdleRrf
    /\ \E chunks \in PipelineCorpora :
        /\ bm25_index = IF chunks = <<>> THEN NoIndex
                        ELSE [built |-> TRUE,
                              docs |-> [i \in 1..Len(chunks) |-> chunks[i].content]]
        /\ bm25_corpus = [i \in 1..Len(chunks) |-> chunks[i].content]
        /\ bm25_metadata = chunks
        /\ last_indexed = [called |-> chunks # <<>>, chunks |-> chunks]
    /\ hs = IdleFrame
    /\ store_raised = FALSE
    /\ bs = IdleSearch
    /\ ib = IdleBuild
    /\ NoRuns
    /\ mcp = IdleMcp
    /\ gen = NoLLMCall
    /\ settings \in SettingsSpace
    /\ IdlePipeline
    /\ IdleServices

Next == Run \/ QueryAnalysis \/ Retrieval \/ Reranking \/ Generation \/ Citation

Spec == Init /\ [][Next]_vars

\* The application: requests arrive at POST /query one after another.
InitApp ==
    /\ rrf = IdleRrf
    /\ NoBm25
    /\ hs = IdleFrame
    /\ store_raised = FALSE
    /\ bs = IdleSearch
    /\ ib = IdleBuild
    /\ NoRuns
    /\ mcp = IdleMcp
    /\ gen = NoLLMCall
    /\ settings \in SettingsSpace
    /\ IdlePipeline
    /\ IdleServices

NextApp ==
    ProcessQuery \/ QueryAnalysis \/ Retrieval \/ Reranking \/ Generation \/ Citation

SpecApp == InitApp /\ [][NextApp]_vars

\* Two requests served together: each run call with its own state, the sparse
\* index never built.
InitConcurrent ==
    /\ rrf = IdleRrf
    /\ NoBm25
    /\ hs = IdleFrame
    /\ store_raised = FALSE
    /\ bs = IdleSearch
    /\ ib = IdleBuild
    /\ NoRuns
    /\ mcp = IdleMcp
    /\ gen = NoLLMCall
    /\ settings = DefaultSettings
    /\ IdlePipeline
    /\ IdleServices

NextConcurrent == ConcurrentRun \/ ConcurrentStage

SpecConcurrent == InitConcurrent /\ [][NextConcurrent]_vars

\* ------------------------------------------- direct calls of the reranker

\* The chunks a caller hands to rerank: fused results of the Hybrid Retriever,
\* a chunk that carries no score, and one with no score and blank content.
FusedPair == _reciprocal_rank_fusion(HitsOf(<<"A">>), HitsOf(<<"B">>),
                                     RetrievalDenseWeight, RetrievalSparseWeight)
RerankChunks ==
    {FusedPair[1], FusedPair[2], Chunk("C"), [chunk_id |-> "D", content |-> <<" ">>,
                                                 metadata |-> MetadataOf("D")]}

RerankQueries == Queries \cup {<<" ">>}

\* The values settings.reranking_top_k is configured to.
RerankTopKs == {1, 2, reranking_top_k}

\* rerank is called on the state rr.state, as the previous call left it.
RerankCall ==
    /\ rr.calls < MaxCalls
    /\ \E failed \in BOOLEAN :
        LET outcome == rerank(rr.state, settings, [failed |-> failed, model |-> rr.model])
        IN rr' = IF outcome.raised
                 THEN [rr EXCEPT !.calls = @ + 1, !.raised = TRUE,
                                 !.state.processing_steps = Append(@, "reranking")]
                 ELSE [rr EXCEPT !.calls = @ + 1,
                                 !.state = outcome.state,
                                 !.results = Append(@, outcome.state.reranked_chunks)]
    /\ UNCHANGED <<rrf, conc, bm25, call, pipeline, emb, ck>>

InitRerank ==
    /\ rrf = IdleRrf
    /\ NoBm25
    /\ hs = IdleFrame
    /\ store_raised = FALSE
    /\ bs = IdleSearch
    /\ ib = IdleBuild
    /\ NoRuns
    /\ mcp = IdleMcp
    /\ gen = NoLLMCall
    /\ \E n \in RerankTopKs : settings = [DefaultSettings EXCEPT !.reranking_top_k = n]
    /\ pc = "idle"
    /\ state = NoRun
    /\ web = NoWebCall
    /\ exc = "None"
    /\ returned = NotReturned
    /\ \E q \in RerankQueries, m \in Models, chunks \in SeqsUpTo(RerankChunks, MaxLen) :
        rr = [IdleRerank EXCEPT !.model = m, !.given = chunks,
                                !.state = [InitialState(q) EXCEPT !.retrieved_chunks = chunks]]
    /\ emb = IdleEmbedder
    /\ ck = IdleChunker

NextRerank == RerankCall

SpecRerank == InitRerank /\ [][NextRerank]_vars

\* -------------------------------------------- direct calls of the chunker

Small50 == TextItem("small50", 50)
Small40 == TextItem("small40", 40)
Big == TextItem("big", 600)
Small45 == TextItem("small45", 45)
Noise == TextItem("noise", 5)

\* The extracted texts of the uploads: plain ones and ones with page markers.
Documents ==
    {<<Small50, Small40, Big>>,
     <<Small50, Small40, Big, Small45>>,
     <<Noise, Big>>,
     <<Big, Noise, Small50>>,
     <<Small50>>,
     <<PageMarker(1), Small50, Big, PageMarker(2), Small40>>,
     <<PageMarker(1), Noise, Big, PageMarker(2), NoTextContent, PageMarker(3), Small50>>,
     <<Small40, PageMarker(1), Big>>}

\* document_processor gives every upload a doc_id of its own.
DocId(n) == <<"doc", n>>

MinSizes == {50, merge_min_size, 1000}

\* An upload's text is chunked; the caller collects the chunks.
ChunkDocument ==
    /\ ck.op # "merge_small_chunks"
    /\ ck.calls < MaxDocs
    /\ \E content \in Documents, mode \in SplitModes :
        LET chunks == chunk_document(mode, content, [doc_id |-> DocId(ck.calls + 1)])
        IN ck' = [ck EXCEPT !.op = "chunk_document", !.calls = @ + 1, !.mode = mode,
                            !.content = content, !.result = chunks,
                            !.collected = @ \o chunks]
    /\ UNCHANGED <<rrf, conc, bm25, call, pipeline, rr, emb>>

\* The collected chunks are handed to merge_small_chunks.
MergeSmallChunks ==
    /\ ck.op = "chunk_document"
    /\ \E min_size \in MinSizes :
        ck' = [ck EXCEPT !.op = "merge_small_chunks", !.min_size = min_size,
                         !.result = merge_small_chunks(ck.collected, min_size)]
    /\ UNCHANGED <<rrf, conc, bm25, call, pipeline, rr, emb>>

InitChunk ==
    /\ rrf = IdleRrf
    /\ NoBm25
    /\ hs = IdleFrame
    /\ store_raised = FALSE
    /\ bs = IdleSearch
    /\ ib = IdleBuild
    /\ NoRuns
    /\ mcp = IdleMcp
    /\ gen = NoLLMCall
    /\ settings = DefaultSettings
    /\ IdlePipeline
    /\ IdleServices

NextChunk == ChunkDocument \/ MergeSmallChunks

SpecChunk == InitChunk /\ [][NextChunk]_vars

\* ------------------------------------------ direct calls of the embedder

\* The texts a caller embeds: empty, whitespace only, a word, a padded word.
EmbedTexts == {<<>>, <<" ">>, <<"rag">>, <<" ", "chunk", " ">>}

EmbedModels == {[axis1 |-> {<<"rag">>}, axis2 |-> {}],
                [axis1 |-> {}, axis2 |-> {<<"rag">>}]}

\* The vectors a caller hands to similarity: the zero vector, the model's
\* vectors and the opposite of the first axis.
Opposite == [i \in 1..embedding_dimension |-> IF i = 1 THEN -1 ELSE 0]
SimilarityVectors == {ZeroVector, UnitVector(1), UnitVector(2), Slanted, Opposite}

\* similarity is called on two vectors.
Similarity ==
    /\ ~emb.sim.called
    /\ \E embedding1 \in SimilarityVectors, embedding2 \in SimilarityVectors :
        emb' = [emb EXCEPT !.sim = [called |-> TRUE,
                                    embedding1 |-> embedding1,
                                    embedding2 |-> embedding2,
                                    value |-> similarity(embedding1, embedding2)]]
    /\ UNCHANGED <<rrf, conc, bm25, call, pipeline, rr, ck>>

\* embed_batch is called on the list emb.texts.
EmbedBatch ==
    /\ ~emb.batch_called
    /\ emb' = [emb EXCEPT !.batch_called = TRUE, !.batch = embed_batch(emb.model, emb.texts)]
    /\ UNCHANGED <<rrf, conc, bm25, call, pipeline, rr, ck>>

\* embed_text is called on the next entry of emb.texts.
EmbedText ==
    /\ Len(emb.singles) < Len(emb.texts)
    /\ emb' = [emb EXCEPT !.singles =
                    Append(@, embed_text(emb.model, emb.texts[Len(emb.singles) + 1]))]
    /\ UNCHANGED <<rrf, conc, bm25, call, pipeline, rr, ck>>

InitEmbed ==
    /\ rrf = IdleRrf
    /\ NoBm25
    /\ hs = IdleFrame
    /\ store_raised = FALSE
    /\ bs = IdleSearch
    /\ ib = IdleBuild
    /\ NoRuns
    /\ mcp = IdleMcp
    /\ gen = NoLLMCall
    /\ settings = DefaultSettings
    /\ IdlePipeline
    /\ rr = IdleRerank
    /\ ck = IdleChunker
    /\ \E m \in EmbedModels, texts \in SeqsUpTo(EmbedTexts, MaxLen) :
        emb = [IdleEmbedder EXCEPT !.model = m, !.texts = texts]

NextEmbed == EmbedBatch \/ EmbedText \/ Similarity

SpecEmbed == InitEmbed /\ [][NextEmbed]_vars

\* ------------------------------------- the document-processing MCP server

\* The methods class ChunkingService defines.
ChunkingServiceMethods ==
    {"__init__", "chunk_document", "_chunk_with_pages", "_chunk_plain_text",
     "get_chunk_stats", "merge_small_chunks"}

SUPPORTED_EXTENSIONS == {".txt", ".md", ".pdf"}

RECURSIVE SumSizes(_)
SumSizes(sizes) == IF sizes = <<>> THEN 0 ELSE Head(sizes) + SumSizes(Tail(sizes))

get_chunk_stats(chunks) ==
    IF chunks = <<>>
    THEN [total_chunks |-> 0, avg_chunk_size |-> 0, min_chunk_size |-> 0,
          max_chunk_size |-> 0]
    ELSE LET chunk_sizes == [i \in 1..Len(chunks) |-> TextLen(chunks[i].content)]
         IN [total_chunks |-> Len(chunks),
             avg_chunk_size |-> SumSizes(chunk_sizes) \div Len(chunk_sizes),
             min_chunk_size |-> CHOOSE m \in Range(chunk_sizes) :
                                   \A x \in Range(chunk_sizes) : m <= x,
             max_chunk_size |-> CHOOSE m \in Range(chunk_sizes) :
                                   \A x \in Range(chunk_sizes) : m >= x]

\* chunker.<method>(chunks): the attribute lookup fails for a name the class
\* does not define.
ChunkerStatistics(method, chunks) ==
    IF method \notin ChunkingServiceMethods
    THEN [raised |-> TRUE, value |-> <<>>]
    ELSE [raised |-> FALSE, value |-> get_chunk_stats(chunks)]

\* except Exception as e: raise HTTPException(status_code=500, detail=str(e))
ServerError(detail) == [status_code |-> 500, body |-> [detail |-> detail]]

\* POST /process of the document-processing server.
process_and_chunk(file) ==
    IF file.ext \notin SUPPORTED_EXTENSIONS
    THEN ServerError("Unsupported file type")
    ELSE LET chunks == chunk_document(file.mode, file.content, [doc_id |-> DocId(1)])
             stats == ChunkerStatistics("get_chunk_statistics", chunks)
         IN IF stats.raised
            THEN ServerError("'ChunkingService' object has no attribute 'get_chunk_statistics'")
            ELSE [status_code |-> 200,
                  body |-> [status |-> "success", doc_id |-> DocId(1), chunks |-> chunks,
                            total_chunks |-> Len(chunks), statistics |-> stats.value]]

\* The files a client uploads: a name's extension, the text extraction gives,
\* and how the splitter cuts it.
Uploads ==
    {[ext |-> e, content |-> c, mode |-> m] :
        e \in SUPPORTED_EXTENSIONS \cup {".docx"}, c \in Documents, m \in SplitModes}

\* A caller awaits MCPClient.process_document(file_content, filename); the
\* client posts the file to a server that is running or not.
McpProcessDocument ==
    /\ mcp.pc \in {"idle", "returned"}
    /\ \E file \in Uploads, running \in BOOLEAN :
        mcp' = [IdleMcp EXCEPT !.pc = "posted", !.running = running, !.file = file]
    /\ UNCHANGED <<rrf, runs, heap, gen, bm25, call, pipeline, services>>

\* The running server handles POST /process and responds.
McpProcessAndChunk ==
    /\ mcp.pc = "posted"
    /\ mcp.running
    /\ mcp' = [mcp EXCEPT !.pc = "responded", !.response = process_and_chunk(mcp.file)]
    /\ UNCHANGED <<rrf, runs, heap, gen, bm25, call, pipeline, services>>

\* response.raise_for_status(); return response.json(), and
\* except Exception: return {} for an error status or a failed connection.
McpReturn ==
    /\ \/ mcp.pc = "responded"
       \/ mcp.pc = "posted" /\ ~mcp.running
    /\ mcp' = [mcp EXCEPT
            !.pc = "returned",
            !.result = IF mcp.pc = "responded" /\ mcp.response.status_code < 400
                       THEN mcp.response.body
                       ELSE <<>>]
    /\ UNCHANGED <<rrf, runs, heap, gen, bm25, call, pipeline, services>>

InitMcp ==
    /\ rrf = IdleRrf
    /\ NoBm25
    /\ hs = IdleFrame
    /\ store_raised = FALSE
    /\ bs = IdleSearch
    /\ ib = IdleBuild
    /\ NoRuns
    /\ mcp = IdleMcp
    /\ gen = NoLLMCall
    /\ settings = DefaultSettings
    /\ IdlePipeline
    /\ IdleServices

NextMcp == McpProcessDocument \/ McpProcessAndChunk \/ McpReturn

SpecMcp == InitMcp /\ [][NextMcp]_vars

\* ------------------------------------------------------------ properties

StageOrder == <<"query_analysis", "retrieval", "reranking", "generation", "citation">>

Last(s) == s[Len(s)]
Ids(hits) == [i \in 1..Len(hits) |-> hits[i].chunk_id]

\* 1-based rank of a chunk_id in a ranked list, 0 when it is not in the list.
RankOf(list, cid) ==
    IF \E i \in 1..Len(list) : list[i].chunk_id = cid
    THEN CHOOSE i \in 1..Len(list) : list[i].chunk_id = cid
    ELSE 0

\* dw/(60 + rd) + sw/(60 + rs), a term being left out for a rank of 0.
RrfScore(rd, rs, dw, sw) ==
    IF rd # 0 /\ rs # 0 THEN <<dw * (60 + rs) + sw * (60 + rd), (60 + rd) * (60 + rs)>>
    ELSE IF rd # 0 THEN <<dw, 60 + rd>>
    ELSE <<sw, 60 + rs>>

NonIncreasing(list) ==
    \A i \in 1..Len(list) : \A j \in 1..Len(list) :
        i < j => ~FracLess(list[i].score, list[j].score)

\* C1: in a run in which no stage has raised, the stages so far are a prefix
\* of query_analysis, retrieval, reranking, generation, citation, the node
\* about to run is the next name of that sequence, and the state run returns
\* without an error lists all five, each once, in that order.
C1_StagesInOrder ==
    /\ (pc \in Range(StageOrder) /\ exc = "None") =>
            /\ Len(state.processing_steps) < Len(StageOrder)
            /\ state.processing_steps = SubSeq(StageOrder, 1, Len(state.processing_steps))
            /\ pc = StageOrder[Len(state.processing_steps) + 1]
            /\ ~returned.done
    /\ (pc = "END" /\ exc = "None") =>
            /\ returned.done
            /\ returned.value.processing_steps = StageOrder
            /\ state.processing_steps = StageOrder

C1_Witness ==
    /\ pc = "END"
    /\ exc = "None"
    /\ returned.done
    /\ returned.value.processing_steps = StageOrder

\* C2: when a stage raises, the state run returns holds the retrieved_chunks
\* and reranked_chunks of the state the earlier stages had handed on.
C2_KeepsIntermediateResults ==
    (returned.done /\ exc # "None") =>
        /\ returned.value.retrieved_chunks = state.retrieved_chunks
        /\ returned.value.reranked_chunks = state.reranked_chunks

\* C3: run always returns; the returned state's error is the exception a
\* stage raised, and is None when no stage raised.
C3_ErrorsAttached ==
    /\ pc = "END" => returned.done
    /\ returned.done =>
            /\ pc = "END"
            /\ returned.value.error = exc
            /\ exc # "None" => returned.value.error \notin {"None", ""}

C3_Witness ==
    /\ returned.done
    /\ exc # "None"
    /\ returned.value.error = exc

\* C4: when the web search the retrieval stage made failed in any way, the
\* stage completed with web_results empty and the run carries no error.
C4_WebFailureDegrades ==
    (web.called /\ web.failed) =>
        /\ exc = "None"
        /\ "retrieval" \in Range(state.processing_steps)
        /\ state.web_results = <<>>
        /\ returned.done => returned.value.error = "None"

\* C5: the retrieval stage calls the web search only when needs_web_search is
\* set, and always when it is set and the hybrid search has returned; with the
\* flag unset web_results is empty after the stage; the node after a
\* retrieval stage that returned is reranking.
C5_WebSearchOnlyWhenNeeded ==
    LET ran == "retrieval" \in Range(state.processing_steps)
    IN /\ web.called => (ran /\ state.needs_web_search)
       /\ (ran /\ hs.status = "ok" /\ state.needs_web_search) => web.called
       /\ (ran /\ exc = "None" /\ ~state.needs_web_search) =>
                (~web.called /\ state.web_results = <<>>)
       /\ (ran /\ exc = "None" /\ Last(state.processing_steps) = "retrieval") =>
                pc = "reranking"

C5_Witness ==
    /\ pc = "reranking"
    /\ web.called
    /\ state.needs_web_search
    /\ state.web_results # <<>>

\* C6: hybrid_search raises the configuration error exactly when the weights'
\* sum is more than 0.01 away from 1.0, and otherwise scores with the weights
\* as given.
C6_WeightTolerance ==
    hs.status # "idle" =>
        /\ hs.status = "ValueError" <=>
                Abs(hs.dense_weight + hs.sparse_weight - 1000) > 10
        /\ hs.status = "ok" =>
                \A i \in 1..Len(hs.value) :
                    FracEq(hs.value[i].score,
                           RrfScore(RankOf(hs.dense, hs.value[i].chunk_id),
                                    RankOf(hs.sparse, hs.value[i].chunk_id),
                                    hs.dense_weight, hs.sparse_weight))

\* C7: the fused list holds each chunk_id of either list once, with its rank
\* in each list (none where it is absent) and the score
\* dense_weight/(60 + r_dense) + sparse_weight/(60 + r_sparse) summed over the
\* lists it is in, a larger sum never coming after a smaller one; for dense
\* [A,B,C], sparse [B,A,D] and weights 0.7/0.3 the sums are 0.7/61 + 0.3/62,
\* 0.7/62 + 0.3/61, 0.7/63 and 0.3/63 and the order is A, B, C, D.
C7_WeightedRrf ==
    rrf.called =>
        /\ \A c \in ChunkIds :
            LET rd == RankOf(rrf.dense, c)
                rs == RankOf(rrf.sparse, c)
                at == {i \in 1..Len(rrf.result) : rrf.result[i].chunk_id = c}
            IN IF rd = 0 /\ rs = 0 THEN at = {}
               ELSE /\ Cardinality(at) = 1
                    /\ \A i \in at :
                        /\ rrf.result[i].dense_rank = rd
                        /\ rrf.result[i].sparse_rank = rs
                        /\ FracEq(rrf.result[i].score,
                                  RrfScore(rd, rs, rrf.dense_weight, rrf.sparse_weight))
        /\ NonIncreasing(rrf.result)
        /\ (/\ Ids(rrf.dense) = <<"A", "B", "C">>
            /\ Ids(rrf.sparse) = <<"B", "A", "D">>
            /\ rrf.dense_weight = 700
            /\ rrf.sparse_weight = 300) =>
                /\ Ids(rrf.result) = <<"A", "B", "C", "D">>
                /\ FracEq(rrf.result[1].score, <<700 * 62 + 300 * 61, 61 * 62>>)
                /\ FracEq(rrf.result[2].score, <<700 * 61 + 300 * 62, 62 * 61>>)
                /\ FracEq(rrf.result[3].score, <<700, 63>>)
                /\ FracEq(rrf.result[4].score, <<300, 63>>)
                /\ FracLess(rrf.result[2].score, rrf.result[1].score)

C7_Witness ==
    /\ rrf.called
    /\ Ids(rrf.dense) = <<"A", "B", "C">>
    /\ Ids(rrf.sparse) = <<"B", "A", "D">>
    /\ rrf.dense_weight = 700
    /\ rrf.sparse_weight = 300
    /\ Ids(rrf.result) = <<"A", "B", "C", "D">>

\* The chunk_ids the two legs of the call in frame hs found.
Candidates == Range(Ids(hs.dense)) \cup Range(Ids(hs.sparse))

CandidateScore(c) ==
    RrfScore(RankOf(hs.dense, c), RankOf(hs.sparse, c), hs.dense_weight, hs.sparse_weight)

\* C8: hybrid_search returns min(top_k, number of fused candidates) distinct
\* candidates, each with its fused score, in non-increasing score order, and
\* no candidate left out scores more than a returned one.
C8_TopKByFusedScore ==
    hs.status = "ok" =>
        /\ Len(hs.value) = Min(hs.top_k, Cardinality(Candidates))
        /\ Cardinality(Range(Ids(hs.value))) = Len(hs.value)
        /\ \A i \in 1..Len(hs.value) :
            /\ hs.value[i].chunk_id \in Candidates
            /\ FracEq(hs.value[i].score, CandidateScore(hs.value[i].chunk_id))
        /\ NonIncreasing(hs.value)
        /\ \A c \in Candidates \ Range(Ids(hs.value)) :
            \A i \in 1..Len(hs.value) : FracLeq(CandidateScore(c), hs.value[i].score)

C8_Witness ==
    /\ hs.status = "ok"
    /\ hs.top_k = 2
    /\ Len(hs.value) = 2
    /\ hs.sparse # <<>>
    /\ FracLess(hs.value[2].score, hs.value[1].score)
    /\ \E c \in Candidates \ Range(Ids(hs.value)) :
            FracLess(CandidateScore(c), hs.value[2].score)

\* The latest index_for_bm25 call, if any, was given no chunks.
SparseIndexUnbuilt == last_indexed.chunks = <<>>

\* C9 as stated: with the sparse index unbuilt the sparse search is empty and
\* hybrid_search returns every dense hit, in dense rank order, scored
\* dense_weight/(60 + rank) with no sparse rank.
C9_AllDenseHits ==
    (hs.status = "ok" /\ SparseIndexUnbuilt) =>
        /\ hs.sparse = <<>>
        /\ Len(hs.value) = Len(hs.dense)
        /\ \A i \in 1..Len(hs.value) :
            /\ hs.value[i].chunk_id = hs.dense[i].chunk_id
            /\ FracEq(hs.value[i].score, <<hs.dense_weight, 60 + i>>)
            /\ hs.value[i].dense_rank = i
            /\ hs.value[i].sparse_rank = NoRank

\* C9 amended: with the sparse index unbuilt the sparse search is empty and
\* hybrid_search returns the first top_k dense hits, in dense rank order,
\* scored dense_weight/(60 + rank) with no sparse rank.
C9_FirstTopKDenseHits ==
    (hs.status # "idle" /\ SparseIndexUnbuilt) =>
        /\ hs.sparse = <<>>
        /\ hs.status = "ok" =>
            /\ Len(hs.value) = Min(hs.top_k, Len(hs.dense))
            /\ \A i \in 1..Len(hs.value) :
                /\ hs.value[i].chunk_id = hs.dense[i].chunk_id
                /\ FracEq(hs.value[i].score, <<hs.dense_weight, 60 + i>>)
                /\ hs.value[i].dense_rank = i
                /\ hs.value[i].sparse_rank = NoRank

C9_Witness ==
    /\ hs.status = "ok"
    /\ last_indexed.called
    /\ SparseIndexUnbuilt
    /\ Len(hs.dense) = 3
    /\ Len(hs.value) = 2

\* C10: when similarity_search raises, hybrid_search raises that error and
\* returns nothing, and the run ends in the retrieval stage with that error
\* and no retrieved chunks.
C10_DenseFailureSurfaces ==
    store_raised =>
        /\ hs.status = "StoreError"
        /\ hs.value = <<>>
        /\ pc = "END"
        /\ exc = "StoreError"
        /\ Last(state.processing_steps) = "retrieval"
        /\ state.retrieved_chunks = <<>>
        /\ returned.done
        /\ returned.value.error = "StoreError"
        /\ returned.value.retrieved_chunks = <<>>

C10_Witness ==
    /\ store_raised
    /\ bm25_index.built
    /\ returned.done
    /\ returned.value.error = "StoreError"

\* The chunk of the list given to rerank that has the chunk_id of x.
GivenChunk(x) ==
    LET chunks == rr.state.retrieved_chunks
    IN chunks[CHOOSE i \in 1..Len(chunks) : chunks[i].chunk_id = x.chunk_id]

\* Cosine, in tenths, of the embeddings of the query and of a chunk's content.
FreshSimilarity(chunk) ==
    similarity(embed_text(rr.model, rr.state.query), embed_text(rr.model, chunk.content))

\* 0.6 * similarity + 0.4 * prior, prior being the score the chunk carries or 0.5.
BlendedScore(chunk) ==
    LET prior == IF "score" \in DOMAIN chunk THEN chunk.score ELSE <<500, 1>>
    IN FracAdd(<<60 * FreshSimilarity(chunk), 1>>, <<4 * prior[1], 10 * prior[2]>>)

\* C11: every chunk rerank returns has similarity = the cosine of the query's
\* and its content's fresh embeddings and rerank_score = 0.6 * similarity +
\* 0.4 * prior, prior being its fused score when it carries one, else 0.5, and
\* when the top-N does not cut the list every chunk given is returned so scored.
C11_RerankScoreBlend ==
    \A r \in 1..Len(rr.results) :
        /\ \A i \in 1..Len(rr.results[r]) :
            LET x == rr.results[r][i]
            IN /\ \E j \in 1..Len(rr.state.retrieved_chunks) :
                    rr.state.retrieved_chunks[j].chunk_id = x.chunk_id
               /\ x.content = GivenChunk(x).content
               /\ ("score" \in DOMAIN x) = ("score" \in DOMAIN GivenChunk(x))
               /\ "score" \in DOMAIN x => x.score = GivenChunk(x).score
               /\ x.similarity = FreshSimilarity(GivenChunk(x))
               /\ FracEq(x.rerank_score, BlendedScore(GivenChunk(x)))
        /\ Len(rr.state.retrieved_chunks) <= settings.reranking_top_k =>
                {rr.results[r][i].chunk_id : i \in 1..Len(rr.results[r])}
                    = {rr.state.retrieved_chunks[j].chunk_id :
                            j \in 1..Len(rr.state.retrieved_chunks)}

C11_Witness ==
    /\ Len(rr.results) = 1
    /\ Len(rr.results[1]) = 3
    /\ \E i, j \in 1..3 :
        /\ "score" \in DOMAIN rr.results[1][i]
        /\ rr.results[1][i].similarity = 6
        /\ "score" \notin DOMAIN rr.results[1][j]
        /\ rr.results[1][j].similarity = 8
        /\ FracEq(rr.results[1][j].rerank_score, <<680, 1>>)

\* C12: each list rerank returns has min(len(retrieved_chunks), top-N)
\* elements (top-N being settings.reranking_top_k, 5 by default) in
\* non-increasing rerank_score order, no chunk left out scoring more than a
\* kept one; with no retrieved chunks it returns the empty list and never raises.
C12_TopNByRerankScore ==
    LET chunks == rr.state.retrieved_chunks
    IN /\ DefaultSettings.reranking_top_k = 5
       /\ \A r \in 1..Len(rr.results) :
            LET kept == rr.results[r]
                left_out == {j \in 1..Len(chunks) :
                                \A i \in 1..Len(kept) : kept[i].chunk_id # chunks[j].chunk_id}
            IN /\ Len(kept) = Min(Len(chunks), settings.reranking_top_k)
               /\ \A i, j \in 1..Len(kept) :
                    i < j => FracLeq(kept[j].rerank_score, kept[i].rerank_score)
               /\ \A j \in left_out : \A i \in 1..Len(kept) :
                    FracLeq(BlendedScore(chunks[j]), kept[i].rerank_score)
       /\ chunks = <<>> =>
            /\ ~rr.raised
            /\ Len(rr.results) = rr.calls
            /\ \A r \in 1..Len(rr.results) : rr.results[r] = <<>>

C12_Witness ==
    /\ Len(rr.state.retrieved_chunks) = 3
    /\ settings.reranking_top_k = 2
    /\ Len(rr.results) = 1
    /\ Len(rr.results[1]) = 2
    /\ rr.results[1][1].chunk_id = rr.state.retrieved_chunks[3].chunk_id
    /\ FracLess(rr.results[1][2].rerank_score, rr.results[1][1].rerank_score)
    /\ \E j \in 1..3 :
        FracLess(BlendedScore(rr.state.retrieved_chunks[j]), rr.results[1][2].rerank_score)

\* C13: two calls of rerank on the same state return the same list, with the
\* same rerank_score for every chunk, and leave the retrieved chunks as given.
C13_RerankRepeatable ==
    /\ \A r1, r2 \in 1..Len(rr.results) : rr.results[r1] = rr.results[r2]
    /\ \A j \in 1..Len(rr.state.retrieved_chunks) :
        rr.state.retrieved_chunks[j] \in RerankChunks

C13_Witness ==
    /\ rr.calls = 2
    /\ Len(rr.results) = 2
    /\ Len(rr.results[1]) >= 2
    /\ rr.results[1] = rr.results[2]
    /\ rr.results[1][1].similarity > 0

\* C14: the n chunks chunk_document returns have chunk_index 0..n-1 in list
\* order and total_chunks = n, with or without page markers and also when
\* pieces shorter than 10 characters were dropped.
C14_IndicesContiguous ==
    ck.op = "chunk_document" =>
        \A i \in 1..Len(ck.result) :
            /\ ck.result[i].metadata.chunk_index = i - 1
            /\ ck.result[i].metadata.total_chunks = Len(ck.result)

\* C15: in the list chunk_document returns for a document, and in the list
\* merge_small_chunks makes of it, the chunk_ids are pairwise distinct and the
\* chunk at ordinal position n (from 0) has chunk_id "{doc_id}_chunk_{n}".
C15_ChunkIdsByOrdinal ==
    (ck.op = "chunk_document" \/ (ck.op = "merge_small_chunks" /\ ck.calls = 1)) =>
        /\ \A i, j \in 1..Len(ck.result) :
            i # j => ck.result[i].chunk_id # ck.result[j].chunk_id
        /\ \A i \in 1..Len(ck.result) :
            ck.result[i].chunk_id = ChunkIdOf(ck.result[i].metadata.doc_id, i - 1)

\* The list given to merge_small_chunks in frame ck, and its undersized chunks.
MergeInput == ck.collected
IsSmall(i) == TextLen(MergeInput[i].content) < ck.min_size

\* A maximal run of consecutive undersized chunks, or one chunk that is not
\* undersized, starts at i and ends at RunEnd(i).
RunStarts ==
    {i \in 1..Len(MergeInput) : ~IsSmall(i) \/ i = 1 \/ ~IsSmall(i - 1)}
RunEnd(i) ==
    IF ~IsSmall(i) THEN i
    ELSE CHOOSE j \in i..Len(MergeInput) :
            /\ \A m \in i..j : IsSmall(m)
            /\ j = Len(MergeInput) \/ ~IsSmall(j + 1)
NthStart(k) == CHOOSE i \in RunStarts : Cardinality({m \in RunStarts : m < i}) = k - 1

RECURSIVE JoinRange(_, _)
\* The contents of the input chunks i..j joined by single spaces.
JoinRange(i, j) ==
    IF i = j THEN MergeInput[i].content
    ELSE JoinRange(i, j - 1) \o <<Space>> \o MergeInput[j].content

\* C16: every chunk merge_small_chunks returns is made of input chunks of one
\* document: the stretch of the input it joins has a single doc_id, which is
\* the doc_id it carries, and output chunks follow the input's order.
C16_NoMergeAcrossDocuments ==
    ck.op = "merge_small_chunks" =>
        /\ Len(ck.result) = Cardinality(RunStarts)
        /\ \A k \in 1..Len(ck.result) :
            LET i == NthStart(k)
            IN /\ ck.result[k].content = JoinRange(i, RunEnd(i))
               /\ \A m \in i..RunEnd(i) :
                    MergeInput[m].metadata.doc_id = ck.result[k].metadata.doc_id

\* The chunks of document d in the merged list, in list order.
ChunksOfDoc(d) == SelectSeq(ck.result, LAMBDA c : c.metadata.doc_id = d)

\* C17: after merge_small_chunks the chunks of each document in the output
\* have chunk_index 0..t-1 in order and total_chunks = t, t being the number
\* of that document's chunks in the output; chunks of 50, 40 and 600
\* characters of one document with min_size 100 give indices 0, 1 and total 2.
C17_IndicesPerDocument ==
    ck.op = "merge_small_chunks" =>
        \A n \in 1..ck.calls :
            LET of_doc == ChunksOfDoc(DocId(n))
            IN \A i \in 1..Len(of_doc) :
                /\ of_doc[i].metadata.chunk_index = i - 1
                /\ of_doc[i].metadata.total_chunks = Len(of_doc)

\* C18: merge_small_chunks returns, in input order, one chunk per maximal run
\* of consecutive chunks shorter than min_size, its content those chunks'
\* contents joined in order, and every other chunk's content as it was.
C18_RunsJoinedInOrder ==
    ck.op = "merge_small_chunks" =>
        /\ Len(ck.result) = Cardinality(RunStarts)
        /\ \A k \in 1..Len(ck.result) :
            ck.result[k].content = JoinRange(NthStart(k), RunEnd(NthStart(k)))
        /\ \A k \in 1..Len(ck.result) :
            ~IsSmall(NthStart(k)) => ck.result[k].content = MergeInput[NthStart(k)].content

C18_Witness ==
    /\ ck.op = "merge_small_chunks"
    /\ ck.min_size = merge_min_size
    /\ Len(MergeInput) = 4
    /\ Len(ck.result) = 3
    /\ IsSmall(1) /\ IsSmall(2) /\ ~IsSmall(3) /\ IsSmall(4)
    /\ TextLen(ck.result[1].content) = 91

\* The page, by the markers of the text chunked in frame ck, that the stretch
\* of text item lies on: the number of the last marker before it, 0 if none.
PageOf(item) ==
    LET content == ck.content
        at == CHOOSE i \in 1..Len(content) : content[i] = item
        before == {m \in 1..at : content[m].marker}
    IN IF before = {} THEN 0
       ELSE content[CHOOSE m \in before : \A n \in before : n <= m].page

HasPageMarkers == \E i \in 1..Len(ck.content) : ck.content[i].marker

\* C19: of a text with [Page N] markers chunk_document returns only chunks
\* whose text lies on one page, the page whose number they carry; of a text
\* without markers it returns only chunks with no page_number.
C19_ChunksWithinPages ==
    ck.op = "chunk_document" =>
        \A i \in 1..Len(ck.result) :
            LET chunk == ck.result[i]
            IN IF HasPageMarkers
               THEN /\ chunk.metadata.page_number # NoPage
                    /\ \A k \in 1..Len(chunk.content) :
                        /\ \E m \in 1..Len(ck.content) : ck.content[m] = chunk.content[k]
                        /\ PageOf(chunk.content[k]) = chunk.metadata.page_number
               ELSE chunk.metadata.page_number = NoPage

C19_Witness ==
    /\ ck.op = "chunk_document"
    /\ HasPageMarkers
    /\ Len(ck.result) = 3
    /\ ck.result[1].metadata.page_number = 1
    /\ ck.result[2].metadata.page_number = 1
    /\ ck.result[3].metadata.page_number = 2

\* C20: embed_batch(texts) has the length of texts and at every index the
\* vector embed_text gives for that entry: the model's embedding of a
\* non-empty entry, the all-zero vector of the configured dimension for an
\* empty or whitespace-only one.
C20_BatchMatchesSingles ==
    emb.batch_called =>
        /\ Len(emb.batch) = Len(emb.texts)
        /\ \A i \in 1..Len(emb.texts) :
            /\ Len(emb.batch[i]) = embedding_dimension
            /\ IF emb.texts[i] \in {<<>>, <<" ">>}
               THEN \A d \in 1..embedding_dimension : emb.batch[i][d] = 0
               ELSE emb.batch[i] = encode(emb.model, emb.texts[i])
            /\ i <= Len(emb.singles) => emb.batch[i] = emb.singles[i]

C20_Witness ==
    /\ emb.batch_called
    /\ Len(emb.texts) = 3
    /\ Len(emb.singles) = 3
    /\ emb.texts[1] = <<" ">>
    /\ emb.texts[2] = <<"rag">>
    /\ emb.texts[3] = <<>>
    /\ emb.batch = emb.singles
    /\ emb.batch[2] # emb.batch[1]

\* C21: similarity returns a value from 0 to 1 (0 to 10 tenths) for every
\* pair of vectors, and 0 whenever one of them has zero norm.
C21_SimilarityInUnitInterval ==
    emb.sim.called =>
        /\ emb.sim.value >= 0
        /\ emb.sim.value <= 10
        /\ (\/ \A d \in 1..embedding_dimension : emb.sim.embedding1[d] = 0
            \/ \A d \in 1..embedding_dimension : emb.sim.embedding2[d] = 0)
                => emb.sim.value = 0

\* The indexed positions whose score for the query of the call is positive.
PositivePositions == {a \in 1..Len(bs.scores) : bs.scores[a] > 0}

\* The hit _bm25_search builds for the indexed chunk at position a.
HitAt(a) ==
    [chunk_id |-> bm25_metadata[a].chunk_id,
     score |-> bs.scores[a],
     content |-> bm25_metadata[a].content,
     metadata |-> bm25_metadata[a].metadata]

\* C22: a sparse search over a built index returns at most top_k hits, all of
\* positive score, in non-increasing score order; they are the top_k
\* highest-scoring indexed chunks without those of non-positive score, and each
\* hit carries the chunk_id, content and metadata of the chunk at its position.
C22_SparseTopKPositive ==
    (bs.pc = "returned" /\ bm25_index.built) =>
        LET hits == bs.results
        IN /\ Len(hits) <= bs.top_k
           /\ \A j \in 1..Len(hits) : hits[j].score > 0
           /\ \A j \in 1..Len(hits) : \A m \in 1..Len(hits) :
                 j < m => hits[j].score >= hits[m].score
           /\ Len(hits) = Min(bs.top_k, Cardinality(PositivePositions))
           /\ \E pos \in [1..Len(hits) -> 1..Len(bm25_metadata)] :
                 /\ \A j \in 1..Len(hits) : \A m \in 1..Len(hits) :
                       j # m => pos[j] # pos[m]
                 /\ \A j \in 1..Len(hits) : hits[j] = HitAt(pos[j])
                 /\ \A b \in 1..Len(bm25_metadata) :
                       (\A j \in 1..Len(hits) : pos[j] # b) =>
                           \A j \in 1..Len(hits) : bs.scores[b] <= hits[j].score

\* A search for one hit over two indexed chunks of different positive scores
\* has returned the higher-scoring one.
C22_Witness ==
    /\ bs.pc = "returned"
    /\ bm25_index.built
    /\ bs.top_k = 1
    /\ Len(bm25_metadata) = 2
    /\ bs.scores = <<1, 2>>
    /\ bs.results = <<HitAt(2)>>

\* The chunks of the corpus version the search's index was built over.
IndexedVersion == [j \in 1..Len(bs.index.docs) |-> Chunk(bs.index.docs[j][2])]

\* C24: a sparse search that overlaps a rebuild of the index does not fail, and
\* every hit it has collected pairs the score of an indexed position with the
\* chunk_id, content and metadata of the chunk at that position in the corpus
\* version its scores were computed over.
C24_SearchSeesOneVersion ==
    /\ bs.pc \notin {"AttributeError", "IndexError"}
    /\ (bs.pc \in {"loop", "append", "returned"} /\ bs.index.built) =>
           bs.results = PositiveHits(Take(bs.top_indices, bs.i - 1), bs.scores,
                                     bs.index.docs, IndexedVersion)

\* What run(query) returns when called alone and its collaborators give the
\* answers inputs, one per node, from node on.
RECURSIVE SoloReturns(_, _, _)
SoloReturns(st, node, inputs) ==
    IF node = "END" THEN {[done |-> TRUE, value |-> st]}
    ELSE IF inputs = <<>> THEN {}
    ELSE LET outcome == StageOutcome(node, st, Head(inputs))
         IN IF outcome.raised
            THEN FailureReturns(st.query, outcome.error, Append(st.processing_steps, node))
            ELSE SoloReturns(outcome.state, Edge[node], Tail(inputs))

\* C23: of two run calls in progress together, each one's state is written by
\* its own stages only, and what it returns is what the same call returns alone
\* when its collaborators give the same answers.
C23_RunsIndependent ==
    \A r \in ConcurrentRuns :
        /\ runs[r].pc # "idle" => heap[runs[r].ref].writers = {r}
        /\ runs[r].pc # "idle" => heap[runs[r].ref].state.query = runs[r].query
        /\ runs[r].returned.done =>
               runs[r].returned \in
                   SoloReturns(InitialState(runs[r].query), EntryPoint, runs[r].inputs)

\* Both calls have returned a full five-stage state for different queries,
\* one with web results and one without, and nodes of each ran while the other
\* call was in progress.
C23_Witness ==
    /\ \A r \in ConcurrentRuns :
          /\ runs[r].returned.done
          /\ runs[r].overlapped
          /\ Len(runs[r].returned.value.processing_steps) = 5
          /\ runs[r].returned.value.reranked_chunks # <<>>
    /\ runs[1].query # runs[2].query
    /\ runs[1].returned.value.web_results = <<>>
    /\ runs[2].returned.value.web_results # <<>>

\* C25: process_document on a supported file, with the document-processing
\* server running, returns the server's processing result, which has chunks and
\* total_chunks, and not an empty result.
C25_ProcessDocumentReturnsChunks ==
    (mcp.pc = "returned" /\ mcp.running /\ mcp.file.ext \in SUPPORTED_EXTENSIONS) =>
        /\ mcp.result # <<>>
        /\ {"chunks", "total_chunks"} \subseteq DOMAIN mcp.result
        /\ mcp.result.total_chunks = Len(mcp.result.chunks)

\* Where the fusion first meets a chunk_id: its place in the dense list, or
\* after the whole dense list its place in the sparse list.
EncounterPosition(cid) ==
    LET met == Ids(rrf.dense) \o Ids(rrf.sparse)
    IN CHOOSE i \in 1..Len(met) :
          /\ met[i] = cid
          /\ \A j \in 1..(i - 1) : met[j] # cid

\* C26: fused candidates of equal fused score are returned in the order the
\* fusion met them: dense hits in dense rank order, then the sparse-only hits
\* in sparse rank order.
C26_TiesInEncounterOrder ==
    rrf.called =>
        \A i \in 1..Len(rrf.result) : \A j \in 1..Len(rrf.result) :
            (i < j /\ FracEq(rrf.result[i].score, rrf.result[j].score)) =>
                EncounterPosition(rrf.result[i].chunk_id)
                    < EncounterPosition(rrf.result[j].chunk_id)

\* With equal weights the first dense hit and a sparse-only first hit tie, and
\* two chunks with swapped ranks tie: the one met first comes first.
C26_Witness ==
    /\ rrf.called
    /\ rrf.dense_weight = rrf.sparse_weight
    /\ \/ /\ Ids(rrf.dense) = <<"A", "B">>
          /\ Ids(rrf.sparse) = <<"C">>
          /\ Ids(rrf.result) = <<"A", "C", "B">>
          /\ FracEq(rrf.result[1].score, rrf.result[2].score)
       \/ /\ Ids(rrf.dense) = <<"B", "A">>
          /\ Ids(rrf.sparse) = <<"A", "B">>
          /\ Ids(rrf.result) = <<"B", "A">>
          /\ FracEq(rrf.result[1].score, rrf.result[2].score)

\* C30: the fused list has every chunk_id at most once, and as many entries as
\* there are distinct chunk_ids in the two lists, also when a list repeats a
\* chunk_id and when a chunk_id is in both lists.
C30_FusedIdsDistinct ==
    rrf.called =>
        /\ \A i \in 1..Len(rrf.result) : \A j \in 1..Len(rrf.result) :
              i # j => rrf.result[i].chunk_id # rrf.result[j].chunk_id
        /\ Len(rrf.result)
              = Cardinality(Range(Ids(rrf.dense)) \cup Range(Ids(rrf.sparse)))

\* Both lists repeat a chunk_id and share one; the fusion has returned the
\* three distinct ids.
C30_Witness ==
    /\ rrf.called
    /\ Ids(rrf.dense) = <<"A", "B", "A">>
    /\ Ids(rrf.sparse) = <<"C", "C", "A">>
    /\ Len(rrf.result) = 3
    /\ Range(Ids(rrf.result)) = {"A", "B", "C"}

\* C27: in the application, where every request gets a new HybridSearch and
\* nothing builds its sparse index, the index is unbuilt in every pipeline run
\* and every retrieved chunk has a dense rank and no sparse rank.
C27_AppRetrievalIsDenseOnly ==
    /\ pc # "idle" => ~bm25_index.built
    /\ hs.status = "ok" => hs.sparse = <<>>
    /\ \A st \in {state, returned.value} :
          \A i \in 1..Len(st.retrieved_chunks) :
              /\ st.retrieved_chunks[i].sparse_rank = NoRank
              /\ st.retrieved_chunks[i].dense_rank # NoRank

\* A request's retrieval stage has stored three chunks, and the run returned
\* them.
C27_Witness ==
    /\ pc = "END"
    /\ returned.done
    /\ Len(returned.value.retrieved_chunks) = 3
    /\ Len(returned.value.processing_steps) = 5
    /\ hs.status = "ok"
    /\ hs.dense # <<>>

Apology == "I apologize, but I encountered an error generating a response"

\* C28: when the LLM call of the generation stage fails, the stage does not
\* raise: generated_response is the apology text, the citation stage runs, and
\* run returns all five stage names and no error.
C28_LLMFailureIsAnswered ==
    gen.failed =>
        /\ exc = "None"
        /\ pc \in {"citation", "END"}
        /\ state.generated_response = Apology
        /\ pc = "END" =>
              /\ returned.done
              /\ returned.value.generated_response = Apology
              /\ returned.value.final_response.body = Apology
              /\ returned.value.processing_steps = StageOrder
              /\ returned.value.error = "None"

\* A run whose LLM call failed has returned after the citation stage.
C28_Witness ==
    /\ gen.failed
    /\ pc = "END"
    /\ returned.done
    /\ returned.value.generated_response = Apology
    /\ Last(returned.value.processing_steps) = "citation"

RerankFields == {"rerank_score", "similarity"}

\* C29: rerank leaves retrieved_chunks as given, element for element and field
\* for field; rerank_score and similarity are on the records of the returned
\* list only, and each of those is a given chunk, with that chunk's chunk_id,
\* content, metadata and score, plus the two new fields.
C29_RetrievedChunksUntouched ==
    /\ rr.state.retrieved_chunks = rr.given
    /\ \A j \in 1..Len(rr.state.retrieved_chunks) :
          DOMAIN rr.state.retrieved_chunks[j] \cap RerankFields = {}
    /\ \A r \in 1..Len(rr.results) : \A i \in 1..Len(rr.results[r]) :
          LET x == rr.results[r][i]
          IN \E j \in 1..Len(rr.given) :
                /\ DOMAIN x = DOMAIN rr.given[j] \cup RerankFields
                /\ \A f \in DOMAIN rr.given[j] : x[f] = rr.given[j][f]
    /\ rr.state.reranked_chunks # <<>> =>
          rr.state.reranked_chunks = rr.results[Len(rr.results)]

\* rerank has returned a fused chunk, which carries a score, and a chunk that
\* carries none.
C29_Witness ==
    /\ rr.calls >= 1
    /\ ~rr.raised
    /\ Len(rr.given) = 2
    /\ \E j \in 1..2 : "score" \in DOMAIN rr.given[j]
    /\ \E j \in 1..2 : "score" \notin DOMAIN rr.given[j]
    /\ Len(rr.state.reranked_chunks) = 2
====
